---- MODULE Spec2Model ----
(***************************************************************************)
(* A model of the package speicher (github.com/tsukinoko-kun/speicher):    *)
(* the save scheduler of save.go (notifyChanged, the two timers and the    *)
(* sync.Once guard), the channel iterators of list.go and map.go (Range,   *)
(* RangeV, RangeKV and their cancel functions), the list operations of    *)
(* list.go, the map operations of map.go, and Save, RLock / RUnlock and    *)
(* the helpers Read, ReadE, Write and WriteE.                              *)
(*                                                                         *)
(* The specifications share the variables:                                 *)
(*   SpecSave   the scheduler: goroutines that Lock / Append / Unlock one  *)
(*              list, the timers of time.AfterFunc and their callbacks;    *)
(*   SpecChurn  the scheduler under sustained churn: one goroutine that    *)
(*              runs a critical section in every second;                   *)
(*   SpecIter   one iterator: its producer goroutine and one consumer that *)
(*              receives and cancels (SpecIterFair: the producer runs      *)
(*              whenever it can);                                          *)
(*   SpecList   Get / Set / Append / AppendUnique on one list under the    *)
(*              caller's lock;                                             *)
(*   SpecMap    Get / Has / Set / Overwrite on one map loaded from a file; *)
(*   SpecUser   the scheduler beside a goroutine that reads under RLock    *)
(*              and calls Save, with critical sections whose f fails and   *)
(*              Saves that fail;                                           *)
(*   SpecErr    the scheduler with Saves that fail, the error channel of   *)
(*              Err() and a receiver that may be away: a callback blocked  *)
(*              in its send does not stop the clock;                       *)
(*   SpecStore  LoadList / LoadMap, Append / Set and Save against one      *)
(*              location of the file system, through the JSON text;        *)
(*   SpecWriters  writers whose critical section changes the data in two   *)
(*              steps, beside a reader under RLock and the scheduler;      *)
(*   SpecHeld   an iterator started by a caller that holds the exclusive   *)
(*              or the shared lock and releases it afterwards;             *)
(*   SpecLocks  the scheduler with timerMut taken and released around      *)
(*              every access to a SaveState field;                         *)
(*   SpecNested the scheduler beside goroutines that call Save themselves, *)
(*              outside or inside their critical section;                  *)
(*   SpecHelpers  Write / WriteE whose f succeeds or fails, before or      *)
(*              after it changed the data, and Read / ReadE.               *)
(*                                                                         *)
(* Time is counted in seconds.  A step of a goroutine takes no time        *)
(* against the two delays of save.go (2 s and 10 s): a second passes only  *)
(* when no goroutine is inside a critical section, inside notifyChanged or *)
(* inside a timer callback, and a timer fires in the second it is due.     *)
(* All interleavings of the goroutines within one second are kept.  A      *)
(* timer holds the seconds left until it fires, so no absolute clock is    *)
(* needed.                                                                 *)
(***************************************************************************)
EXTENDS Integers, Sequences, FiniteSets, TLC

\* save.go:38 and save.go:39, in seconds
debounceDelay == 2
maxDelay == 10

\* critical sections (Lock .. Unlock) the goroutines perform in total
MaxUnlocks == 3
\* the same, when at least one is performed every second
ChurnUnlocks == 24
\* timers and onces the heap holds at a time
MaxTimers == 8
MaxOnces == 4

\* the goroutines that mutate the list
Threads == {"A", "B"}
ChurnThreads == {"A"}

\* a nil pointer (*time.Timer, *sync.Once)
Nil == 0

\* the write lock is free
NoThread == "none"

VARIABLES
    \* ---- the collection (list.go:16-25) ----
    data,           \* memoryList.data
    mutW,           \* memoryList.mut: the goroutine holding the write lock, or NoThread
    mutR,           \* memoryList.mut: the number of read-lock holders
    saveTimer,      \* memoryList.saveTimer: a timer id or Nil
    maxSaveTimer,   \* memoryList.maxSaveTimer: a timer id or Nil
    saveOnce,       \* memoryList.saveOnce: a once id or Nil
    file,           \* the content of the file at memoryList.location
    \* ---- the runtime ----
    timers,         \* the time.Timer objects on the heap, by id
    onces,          \* the sync.Once objects on the heap, by id
    thr,            \* per goroutine: its place in Lock / Unlock / notifyChanged
    acted,          \* the goroutines that ran a critical section this second
    budget,         \* the critical sections still to come
    \* ---- history of the scheduler (read by the properties only) ----
    hist,
    \* ---- one iterator (list.go:144-170, map.go:89-155) ----
    kind,           \* the method called: "Range", "RangeV", "RangeKV" or "none"
    mdata,          \* memoryMap.data
    order,          \* the indices / keys in the order the for-range visits them
    prod,           \* the producer goroutine: its place, its loop index, the
                    \* channel its select waits on
    ch,             \* the channel made for ch: "open" or "closed"
    done,           \* the channel made for done: "open" or "closed"
    doneVar,        \* the captured variable done: who has stored nil in it
    chVar,          \* the captured variable ch: who has stored nil in it
    cons,           \* the caller of the method, then consumer of the channel
    panicked,       \* the goroutines that panicked
    \* ---- calls of Get / Set / Append on one list (list.go:84-134) ----
    ret,            \* the last call and what it returned
    setAt,          \* history: index -> value of the Sets that returned nil
    \* ---- calls of Get / Set / Overwrite on one map (map.go:157-193) ----
    mnil,           \* memoryMap.data is the nil map (mdata is empty then)
    mret,           \* the last call and what it returned
    \* ---- explicit Save, RLock / RUnlock and the helpers ----
    usr,            \* the goroutine that reads and saves: its place and
                    \* the error its last Save returned
    fout,           \* per goroutine: how the f given to a helper ended
    logged,         \* the errors given to log (save.go:29-35), counted
    \* ---- the error channel (save.go:19-35) ----
    errChan,        \* the package variable errChan: "nil" or "made"
    recv,           \* the goroutine that receives from Err(): "away" or
                    \* "waiting" in its receive
    sink,           \* history: where the errors went, received from the
                    \* channel or printed, counted; the seconds since the
                    \* last Save of a callback that failed
    \* ---- LoadList / LoadMap and Save on the file system ----
    disk,           \* the parent directory and the file at the location
    coll,           \* what the last load returned, and its data since
    saved,          \* history: the data of the last Save that succeeded;
                    \* whether the last load made the parent directory;
                    \* whether a load has succeeded since that Save
    \* ---- the lock of the SaveState fields (list.go:21, 235-269) ----
    timerMut        \* memoryList.timerMut: the goroutine or the callback
                    \* that holds it and where it was when it took it

collVars == <<data, mutW, mutR, saveTimer, maxSaveTimer, saveOnce, file>>
saveVars == <<timers, onces, thr, acted, budget, hist>>
iterVars == <<kind, mdata, order, prod, ch, done, doneVar, chVar, cons,
              panicked>>
listVars == <<ret, setAt>>
mapVars == <<mnil, mret>>
userVars == <<usr, fout, logged>>
errVars == <<errChan, recv, sink>>
storeVars == <<disk, coll, saved>>
lockVars == <<timerMut>>

\* timerMut is free; else thr or cb names its holder, and at is the place
\* the holder was at when it took the lock
FreeMut == [thr |-> NoThread, cb |-> Nil, at |-> "none"]
vars == <<collVars, saveVars, iterVars, listVars, mapVars, userVars,
          errVars, storeVars, lockVars>>

\* no iterator was made
NoIterator ==
    /\ kind = "none"
    /\ mdata = <<>>
    /\ order = <<>>
    /\ prod = [pc |-> "none", i |-> 1, dch |-> "chan"]
    /\ ch = "open" /\ done = "open"
    /\ doneVar = {} /\ chVar = {}
    /\ cons = [pc |-> "none", ch |-> "chan", received |-> <<>>,
               sawClosed |-> FALSE, cancels |-> 0, cancelAt |-> 0 - 1,
               late |-> FALSE]
    /\ panicked = {}

\* nothing was loaded from the file system
NoStore ==
    /\ disk = [dir |-> TRUE, mkdir |-> TRUE, file |-> "missing",
               bytes |-> <<>>]
    /\ coll = [kind |-> "none", suffix |-> "", list |-> <<>>,
               map |-> [k \in {} |-> 0], nil |-> FALSE, err |-> "none"]
    /\ saved = [kind |-> "none", list |-> <<>>, map |-> [k \in {} |-> 0],
                made |-> FALSE, loaded |-> FALSE]

\* the goroutine that reads and saves has done nothing, no helper was
\* called, Err() was not called
NoProgram ==
    /\ usr = [pc |-> "idle", err |-> "none"]
    /\ fout = [t \in Threads \cup {"U"} |-> "none"]
    /\ logged = 0
    /\ errChan = "nil"
    /\ recv = "away"
    /\ sink = [received |-> 0, printed |-> 0, age |-> 0 - 1]

NoUser == NoProgram /\ NoStore

\* no method of the list or the map was called
NoCalls ==
    /\ ret = [op |-> "none", index |-> 0, value |-> 0, eq |-> "none",
              found |-> FALSE, added |-> FALSE, err |-> FALSE,
              panic |-> FALSE]
    /\ setAt = {}
    /\ mnil = FALSE
    /\ mret = [op |-> "none", key |-> "", value |-> 0, found |-> FALSE,
               panic |-> FALSE]

\* no call was made
NoCall == NoCalls /\ NoUser

(***************************************************************************)
(* The runtime objects: time.Timer and sync.Once.                          *)
(***************************************************************************)

\* the due of a timer that has fired (or was never made)
NotArmed == 0 - 1

TimerIds == 1..MaxTimers
OnceIds == 1..MaxOnces

\* A time.Timer made by time.AfterFunc(d, callback): the once its callback
\* closes over (save.go:50-51), the seconds until it fires (NotArmed when it
\* has fired and was not reset), and the place of the goroutine running its
\* callback.
Timer(o, d) == [once |-> o, due |-> d, cb |-> "none"]

\* an id no timer uses
FreeTimer == Timer(Nil, NotArmed)

\* the id the next timer gets
NewTimerId(tms) == CHOOSE i \in TimerIds :
    /\ tms[i] = FreeTimer
    /\ \A j \in TimerIds : tms[j] = FreeTimer => i <= j

\* time.AfterFunc(d, callback), callback bound to once o (save.go:70,74,81)
AfterFunc(tms, o, d) == [tms EXCEPT ![NewTimerId(tms)] = Timer(o, d)]

\* t.Reset(d) reports whether the timer was still armed (save.go:69)
ResetResult(tms, i) == tms[i].due # NotArmed

\* t.Reset(d) arms the timer again, with the callback it was made with
ResetTimer(tms, i, d) == [tms EXCEPT ![i].due = d]

\* the id the next sync.Once gets
NewOnceId(ons) == CHOOSE o \in OnceIds :
    /\ ons[o] = "free"
    /\ \A p \in OnceIds : ons[p] = "free" => o <= p

\* A once whose function has returned stays done for ever, and every done
\* once behaves alike (once.Do returns at once): the heap keeps one of them,
\* DoneOnce, and every pointer to a done once points to it.
DoneOnce == MaxOnces + 1

OnceState(o) == IF o = DoneOnce THEN "done" ELSE onces[o]

\* The garbage collector: a timer that is not armed, runs no callback and is
\* referenced by no field and no goroutine is gone, and so is a once that no
\* field, no goroutine and no timer's callback references.
CollectTimers(tms, st, mt, th) ==
    [i \in TimerIds |->
        IF /\ tms[i].due = NotArmed /\ tms[i].cb = "none"
           /\ i # st /\ i # mt
           /\ \A t \in DOMAIN th : th[t].t # i
        THEN FreeTimer ELSE tms[i]]

CollectOnces(ons, tms, so, th) ==
    [o \in OnceIds |->
        IF /\ o # so
           /\ \A t \in DOMAIN th : th[t].once # o
           /\ \A i \in TimerIds : tms[i].once # o
        THEN "free" ELSE ons[o]]

\* the heap and the SaveState fields after a step
Heap(tms, ons, st, mt, so, th) ==
    /\ timers' = CollectTimers(tms, st, mt, th)
    /\ onces' = CollectOnces(ons, CollectTimers(tms, st, mt, th), so, th)
    /\ saveTimer' = st
    /\ maxSaveTimer' = mt
    /\ saveOnce' = so
    /\ thr' = th

\* the heap after once o is done
Done(o, x) == IF x = o THEN DoneOnce ELSE x

Armed(i) == timers[i].due # NotArmed

\* no goroutine is inside notifyChanged
NoNotify == \A t \in Threads : thr[t].pc \in {"idle", "locked", "mutated"}

\* no timer callback is running
NoCallback == \A i \in TimerIds : timers[i].cb = "none"

\* the three SaveState fields are absent
FieldsNil == saveTimer = Nil /\ maxSaveTimer = Nil /\ saveOnce = Nil

\* the collection is idle: no SaveState, no goroutine inside notifyChanged,
\* no callback running and no timer due this second
Idle ==
    /\ FieldsNil /\ NoNotify /\ NoCallback
    /\ \A i \in TimerIds : timers[i].due # 0

\* the ages of the history stop counting here
MaxAge == maxDelay + 2

Older(a) == IF a = NotArmed \/ a = MaxAge THEN a ELSE a + 1

(***************************************************************************)
(* Lock, the caller's mutation, Unlock (list.go:172-179, list.go:94-96).   *)
(***************************************************************************)

\* the heap has room for the timers and the once of one more notifyChanged
\* beside those in progress (save.go:44, 70, 74, 81)
HeapHasRoom ==
    LET busy == Cardinality({t \in Threads : thr[t].pc # "idle"}) + 1 IN
    /\ Cardinality({i \in TimerIds : timers[i] = FreeTimer}) >= 2 * busy
    /\ Cardinality({o \in OnceIds : onces[o] = "free"}) >= busy

\* a Lock that waits for the writer only and not for the readers
LockNoWait(t) ==
    /\ thr[t].pc = "idle"
    /\ t \notin acted
    /\ budget > 0
    /\ HeapHasRoom
    /\ mutW = NoThread
    /\ mutW' = t
    /\ thr' = [thr EXCEPT ![t].pc = "locked"]
    /\ acted' = acted \cup {t}
    /\ budget' = budget - 1
    /\ UNCHANGED <<data, mutR, saveTimer, maxSaveTimer, saveOnce, file,
                   timers, onces, hist>>
    /\ UNCHANGED <<iterVars, listVars, mapVars, userVars, errVars, storeVars,
                   lockVars>>

\* l.mut.Lock(): blocks while a writer or a reader holds the lock
Lock(t) ==
    /\ thr[t].pc = "idle"
    /\ t \notin acted
    /\ budget > 0
    /\ HeapHasRoom
    /\ mutW = NoThread /\ mutR = 0
    /\ mutW' = t
    /\ thr' = [thr EXCEPT ![t].pc = "locked"]
    /\ acted' = acted \cup {t}
    /\ budget' = budget - 1
    /\ UNCHANGED <<data, mutR, saveTimer, maxSaveTimer, saveOnce, file,
                   timers, onces, hist>>
    /\ UNCHANGED <<iterVars, listVars, mapVars, userVars, errVars, storeVars,
                   lockVars>>

\* l.Append(value) by the holder of the write lock; the value appended is
\* the number of the mutation
ListAppend(t) ==
    /\ thr[t].pc = "locked"
    /\ data' = Append(data, Len(data) + 1)
    /\ thr' = [thr EXCEPT ![t].pc = "mutated"]
    /\ UNCHANGED <<mutW, mutR, saveTimer, maxSaveTimer, saveOnce, file,
                   timers, onces, acted, budget, hist>>
    /\ UNCHANGED <<iterVars, listVars, mapVars, userVars, errVars, storeVars,
                   lockVars>>

\* The history at an Unlock.
\*   dirtyAge      seconds since the oldest Unlock no Save has started after
\*   unlockAge     seconds since the last Unlock
\*   fromIdle      the last Unlock found the collection idle
\*   savesSince    Saves started since the last Unlock (counted to 2)
\*   firstSaveAge  unlockAge when the first of them started
\*   churn         since the first Unlock, no second passed without one
\*   age           while churn: seconds since the first Unlock
\*   saves         while churn: Saves started (counted to 2)
\*   firstSaveAt   while churn: age when the first Save started
\*   burstSaves    persist actions run since the last burst began
\*   owed          bursts begun minus Saves of callbacks started; stays -1
\*                 once the Saves have outnumbered the bursts
UnlockHist(h) ==
    [h EXCEPT
       !.dirtyAge = IF h.dirtyAge = NotArmed THEN 0 ELSE h.dirtyAge,
       !.unlockAge = 0,
       !.fromIdle = Idle,
       !.savesSince = 0,
       !.firstSaveAge = NotArmed,
       !.age = IF h.churn /\ h.age = NotArmed THEN 0 ELSE h.age]

\* an Unlock that releases the lock and does not call notifyChanged
UnlockQuiet(t) ==
    /\ thr[t].pc = "mutated"
    /\ mutW' = NoThread
    /\ thr' = [thr EXCEPT ![t].pc = "idle"]
    /\ hist' = UnlockHist(hist)
    /\ UNCHANGED <<data, mutR, saveTimer, maxSaveTimer, saveOnce, file,
                   timers, onces, acted, budget>>
    /\ UNCHANGED <<iterVars, listVars, mapVars, userVars, errVars, storeVars,
                   lockVars>>

\* an Unlock that calls notifyChanged only when the f of the helper did
\* not fail
UnlockOnSuccess(t) ==
    /\ thr[t].pc = "mutated"
    /\ mutW' = NoThread
    /\ thr' = [thr EXCEPT ![t].pc = IF fout[t] = "none" THEN "getOnce"
                                    ELSE "idle"]
    /\ hist' = UnlockHist(hist)
    /\ UNCHANGED <<data, mutR, saveTimer, maxSaveTimer, saveOnce, file,
                   timers, onces, acted, budget>>
    /\ UNCHANGED <<iterVars, listVars, mapVars, userVars, errVars, storeVars,
                   lockVars>>

\* an Unlock that calls notifyChanged before it releases the data lock
UnlockAfterNotify(t) ==
    /\ thr[t].pc = "mutated"
    /\ thr' = [thr EXCEPT ![t].pc = "getOnce"]
    /\ hist' = UnlockHist(hist)
    /\ UNCHANGED <<data, mutW, mutR, saveTimer, maxSaveTimer, saveOnce, file,
                   timers, onces, acted, budget>>
    /\ UNCHANGED <<iterVars, listVars, mapVars, userVars, errVars, storeVars,
                   lockVars>>

\* l.mut.Unlock(); notifyChanged(l) is entered
Unlock(t) ==
    /\ thr[t].pc = "mutated"
    /\ mutW' = NoThread
    /\ thr' = [thr EXCEPT ![t].pc = "getOnce"]
    /\ hist' = UnlockHist(hist)
    /\ UNCHANGED <<data, mutR, saveTimer, maxSaveTimer, saveOnce, file,
                   timers, onces, acted, budget>>
    /\ UNCHANGED <<iterVars, listVars, mapVars, userVars, errVars, storeVars,
                   lockVars>>

(***************************************************************************)
(* notifyChanged (save.go:37-84), one action per access to shared state.   *)
(***************************************************************************)

\* the three SaveState fields are present
Bursting == saveTimer # Nil /\ maxSaveTimer # Nil /\ saveOnce # Nil

\* a callback has cleared the fields and its Save has not returned
SaveInFlight == \E i \in TimerIds : timers[i].cb \in {"rlock", "write"}

\* the history when notifyChanged of t begins (save.go:42):
\*   inBurst   the goroutines inside a notifyChanged that began while the
\*             collection was bursting
\*   inSave    the goroutines inside a notifyChanged that began while a
\*             Save of a callback was in flight
ArriveHist(h, t) ==
    [h EXCEPT
       !.inBurst = IF Bursting THEN @ \cup {t} ELSE @ \ {t},
       !.inSave = IF SaveInFlight THEN @ \cup {t} ELSE @ \ {t}]

\* the history when notifyChanged of t returns
ReturnHist(h, t) ==
    [h EXCEPT !.inBurst = @ \ {t}, !.inSave = @ \ {t}]

\* save.go:42  once := s.getSaveOnce()
getSaveOnce(t) ==
    /\ thr[t].pc = "getOnce"
    /\ thr' = [thr EXCEPT ![t].once = saveOnce,
                          ![t].pc = IF saveOnce = Nil THEN "newOnce"
                                    ELSE "getTimer"]
    /\ hist' = ArriveHist(hist, t)
    /\ UNCHANGED <<collVars, timers, onces, acted, budget>>
    /\ UNCHANGED <<iterVars, listVars, mapVars, userVars, errVars, storeVars,
                   lockVars>>

\* save.go:43-46  once = new(sync.Once); s.setSaveOnce(once)
setSaveOnce(t) ==
    /\ thr[t].pc = "newOnce"
    /\ LET o == NewOnceId(onces) IN
        Heap(timers, [onces EXCEPT ![o] = "new"], saveTimer, maxSaveTimer, o,
             [thr EXCEPT ![t].once = o, ![t].pc = "getTimer"])
    /\ hist' = [hist EXCEPT !.burstSaves = IF saveOnce = Nil THEN 0 ELSE @,
                            !.owed = IF saveOnce = Nil /\ @ >= 0 THEN @ + 1
                                     ELSE @]
    /\ UNCHANGED <<data, mutW, mutR, file, acted, budget>>
    /\ UNCHANGED <<iterVars, listVars, mapVars, userVars, errVars, storeVars,
                   lockVars>>

\* save.go:65-66  t := s.getSaveTimer()
getSaveTimer(t) ==
    /\ thr[t].pc = "getTimer"
    /\ thr' = [thr EXCEPT ![t].t = saveTimer,
                          ![t].pc = IF saveTimer = Nil THEN "newTimer"
                                    ELSE "reset"]
    /\ UNCHANGED <<collVars, timers, onces, acted, budget, hist>>
    /\ UNCHANGED <<iterVars, listVars, mapVars, userVars, errVars, storeVars,
                   lockVars>>

\* save.go:69  t.Reset(debounceDelay): the timer keeps the callback it was
\* made with; when Reset reports false a new timer is made next
Reset(t) ==
    /\ thr[t].pc = "reset"
    /\ Heap(ResetTimer(timers, thr[t].t, debounceDelay), onces,
            saveTimer, maxSaveTimer, saveOnce,
            [thr EXCEPT ![t].t = Nil,
                        ![t].pc = IF ResetResult(timers, thr[t].t)
                                  THEN "getMax" ELSE "newTimer"])
    /\ UNCHANGED <<data, mutW, mutR, file, acted, budget, hist>>
    /\ UNCHANGED <<iterVars, listVars, mapVars, userVars, errVars, storeVars,
                   lockVars>>

\* save.go:70-71 and save.go:74-75
\* newTimer := time.AfterFunc(debounceDelay, callback); s.setSaveTimer(newTimer)
setSaveTimer(t) ==
    /\ thr[t].pc = "newTimer"
    /\ Heap(AfterFunc(timers, thr[t].once, debounceDelay), onces,
            NewTimerId(timers), maxSaveTimer, saveOnce,
            [thr EXCEPT ![t].t = Nil, ![t].pc = "getMax"])
    /\ UNCHANGED <<data, mutW, mutR, file, acted, budget, hist>>
    /\ UNCHANGED <<iterVars, listVars, mapVars, userVars, errVars, storeVars,
                   lockVars>>

\* save.go:79-80  tmax := s.getMaxSaveTimer(); notifyChanged returns when
\* tmax is not nil
getMaxSaveTimer(t) ==
    /\ thr[t].pc = "getMax"
    /\ Heap(timers, onces, saveTimer, maxSaveTimer, saveOnce,
            [thr EXCEPT ![t].pc = IF maxSaveTimer = Nil THEN "newMax"
                                  ELSE "idle",
                        ![t].once = IF maxSaveTimer = Nil THEN @ ELSE Nil])
    /\ hist' = IF maxSaveTimer = Nil THEN hist ELSE ReturnHist(hist, t)
    /\ UNCHANGED <<data, mutW, mutR, file, acted, budget>>
    /\ UNCHANGED <<iterVars, listVars, mapVars, userVars, errVars, storeVars,
                   lockVars>>

\* save.go:81-82
\* newMaxTimer := time.AfterFunc(maxDelay, callback); s.setMaxSaveTimer(newMaxTimer)
setMaxSaveTimer(t) ==
    /\ thr[t].pc = "newMax"
    /\ Heap(AfterFunc(timers, thr[t].once, maxDelay), onces,
            saveTimer, NewTimerId(timers), saveOnce,
            [thr EXCEPT ![t].pc = "idle", ![t].once = Nil])
    /\ hist' = ReturnHist(hist, t)
    /\ UNCHANGED <<data, mutW, mutR, file, acted, budget>>
    /\ UNCHANGED <<iterVars, listVars, mapVars, userVars, errVars, storeVars,
                   lockVars>>

(***************************************************************************)
(* The timers and the callback (save.go:50-62), Save (list.go:189-202).    *)
(***************************************************************************)

\* a due timer fires: the runtime starts a goroutine that runs its callback
Fire(i) ==
    /\ timers[i].due = 0
    /\ timers[i].cb = "none"
    /\ timers' = [timers EXCEPT ![i].due = NotArmed, ![i].cb = "do"]
    /\ UNCHANGED <<collVars, onces, thr, acted, budget, hist>>
    /\ UNCHANGED <<iterVars, listVars, mapVars, userVars, errVars, storeVars,
                   lockVars>>

\* save.go:51  once.Do(f): runs f if the once is new, returns if it is done,
\* and waits while another goroutine runs f
callbackDo(i) ==
    /\ timers[i].cb = "do"
    /\ OnceState(timers[i].once) # "running"
    /\ IF OnceState(timers[i].once) = "new"
       THEN /\ Heap([timers EXCEPT ![i].cb = "clr1"],
                    [onces EXCEPT ![timers[i].once] = "running"],
                    saveTimer, maxSaveTimer, saveOnce, thr)
            /\ hist' = [hist EXCEPT
                          !.burstSaves = IF @ < 2 THEN @ + 1 ELSE @]
       ELSE /\ Heap([timers EXCEPT ![i].cb = "none"], onces,
                    saveTimer, maxSaveTimer, saveOnce, thr)
            /\ UNCHANGED hist
    /\ UNCHANGED <<data, mutW, mutR, file, acted, budget>>
    /\ UNCHANGED <<iterVars, listVars, mapVars, userVars, errVars, storeVars,
                   lockVars>>

\* save.go:54  s.setSaveTimer(nil)
callbackClearSaveTimer(i) ==
    /\ timers[i].cb = "clr1"
    /\ Heap([timers EXCEPT ![i].cb = "clr2"], onces,
            Nil, maxSaveTimer, saveOnce, thr)
    /\ UNCHANGED <<data, mutW, mutR, file, acted, budget, hist>>
    /\ UNCHANGED <<iterVars, listVars, mapVars, userVars, errVars, storeVars,
                   lockVars>>

\* save.go:55  s.setMaxSaveTimer(nil)
callbackClearMaxSaveTimer(i) ==
    /\ timers[i].cb = "clr2"
    /\ Heap([timers EXCEPT ![i].cb = "clr3"], onces,
            saveTimer, Nil, saveOnce, thr)
    /\ UNCHANGED <<data, mutW, mutR, file, acted, budget, hist>>
    /\ UNCHANGED <<iterVars, listVars, mapVars, userVars, errVars, storeVars,
                   lockVars>>

\* save.go:56  s.setSaveOnce(nil)
callbackClearSaveOnce(i) ==
    /\ timers[i].cb = "clr3"
    /\ Heap([timers EXCEPT ![i].cb = "rlock"], onces,
            saveTimer, maxSaveTimer, Nil, thr)
    /\ UNCHANGED <<data, mutW, mutR, file, acted, budget, hist>>
    /\ UNCHANGED <<iterVars, listVars, mapVars, userVars, errVars, storeVars,
                   lockVars>>

\* the history when a Save starts
SaveHist(h) ==
    [h EXCEPT
       !.dirtyAge = NotArmed,
       !.savesSince = IF @ < 2 THEN @ + 1 ELSE @,
       !.firstSaveAge = IF h.savesSince = 0 THEN h.unlockAge ELSE @,
       !.saves = IF h.churn /\ @ < 2 THEN @ + 1 ELSE @,
       !.firstSaveAt = IF h.churn /\ h.saves = 0 THEN h.age ELSE @,
       !.owed = IF @ >= 0 THEN @ - 1 ELSE @]

\* the history when a second passes
TickHist(h) ==
    LET still == h.churn /\ h.unlockAge \in {NotArmed, 0} IN
    [h EXCEPT
       !.dirtyAge = Older(@),
       !.unlockAge = Older(@),
       !.churn = still,
       !.age = IF still THEN Older(@) ELSE NotArmed,
       !.saves = IF still THEN @ ELSE 0,
       !.firstSaveAt = IF still THEN @ ELSE NotArmed]

\* list.go:190  l.RLock() in Save (save.go:58): blocks while a writer holds
\* the lock.  The Save has started: what it writes is the data as of now.
SaveRLock(i) ==
    /\ timers[i].cb = "rlock"
    /\ mutW = NoThread
    /\ mutR' = mutR + 1
    /\ timers' = [timers EXCEPT ![i].cb = "write"]
    /\ hist' = SaveHist(hist)
    /\ UNCHANGED <<data, mutW, saveTimer, maxSaveTimer, saveOnce, file,
                   onces, thr, acted, budget>>
    /\ UNCHANGED <<iterVars, listVars, mapVars, userVars, errVars, storeVars,
                   lockVars>>

\* list.go:193-201  os.Create, Encode(l.data), the deferred RUnlock; then
\* the function given to once.Do returns and the once is done
SaveWrite(i) ==
    /\ timers[i].cb = "write"
    /\ file' = data
    /\ mutR' = mutR - 1
    /\ LET o == timers[i].once IN
        Heap([j \in TimerIds |->
                 [timers[j] EXCEPT !.once = Done(o, @),
                                   !.cb = IF j = i THEN "none" ELSE @]],
             onces, saveTimer, maxSaveTimer, Done(o, saveOnce),
             [t \in Threads |-> [thr[t] EXCEPT !.once = Done(o, @)]])
    /\ UNCHANGED <<data, mutW, acted, budget, hist>>
    /\ UNCHANGED <<iterVars, listVars, mapVars, userVars, errVars, storeVars,
                   lockVars>>

\* a second passes: every goroutine has finished what it was doing and no
\* timer is due
Tick ==
    /\ \A t \in Threads : thr[t].pc = "idle"
    /\ NoCallback
    /\ \A i \in TimerIds : timers[i].due # 0
    /\ timers' = [i \in TimerIds |->
                    IF Armed(i) THEN [timers[i] EXCEPT !.due = @ - 1]
                    ELSE timers[i]]
    /\ acted' = {}
    /\ hist' = TickHist(hist)
    /\ UNCHANGED <<collVars, onces, thr, budget>>
    /\ UNCHANGED <<iterVars, listVars, mapVars, userVars, errVars, storeVars,
                   lockVars>>

\* the state after LoadList on a missing file (list.go:216-225), with b
\* critical sections to come
SchedulerInit(b) ==
    /\ mutW = NoThread /\ mutR = 0
    /\ timerMut = FreeMut
    /\ saveTimer = Nil /\ maxSaveTimer = Nil /\ saveOnce = Nil
    /\ file = <<>>
    /\ timers = [i \in TimerIds |-> FreeTimer]
    /\ onces = [o \in OnceIds |-> "free"]
    /\ thr = [t \in Threads |-> [pc |-> "idle", once |-> Nil, t |-> Nil]]
    /\ acted = {}
    /\ budget = b
    /\ hist = [burstSaves |-> NotArmed, dirtyAge |-> NotArmed,
               unlockAge |-> NotArmed, fromIdle |-> FALSE,
               savesSince |-> 0, firstSaveAge |-> NotArmed,
               churn |-> TRUE, age |-> NotArmed, saves |-> 0,
               firstSaveAt |-> NotArmed, inBurst |-> {}, inSave |-> {},
               owed |-> 0]

InitSave ==
    /\ data = <<>>
    /\ SchedulerInit(MaxUnlocks) /\ NoIterator /\ NoCall

\* a step of a goroutine of T, of the runtime's timers or of a callback
Step(T) ==
    \/ \E t \in T : Lock(t)
    \/ \E t \in T : ListAppend(t)
    \/ \E t \in T : Unlock(t)
    \/ \E t \in T : getSaveOnce(t)
    \/ \E t \in T : setSaveOnce(t)
    \/ \E t \in T : getSaveTimer(t)
    \/ \E t \in T : Reset(t)
    \/ \E t \in T : setSaveTimer(t)
    \/ \E t \in T : getMaxSaveTimer(t)
    \/ \E t \in T : setMaxSaveTimer(t)
    \/ \E i \in TimerIds : Fire(i)
    \/ \E i \in TimerIds : callbackDo(i)
    \/ \E i \in TimerIds : callbackClearSaveTimer(i)
    \/ \E i \in TimerIds : callbackClearMaxSaveTimer(i)
    \/ \E i \in TimerIds : callbackClearSaveOnce(i)
    \/ \E i \in TimerIds : SaveRLock(i)
    \/ \E i \in TimerIds : SaveWrite(i)

NextSave == Step(Threads) \/ Tick

\* the scheduler under any timing of the Unlocks
SpecSave == InitSave /\ [][NextSave]_vars

\* sustained churn by one goroutine: a second passes only after a critical
\* section ran in it
TickChurn == acted # {} /\ Tick

InitChurn ==
    /\ data = <<>>
    /\ SchedulerInit(ChurnUnlocks) /\ NoIterator /\ NoCall

NextChurn == Step(ChurnThreads) \/ TickChurn

\* the scheduler when Unlocks keep arriving less than debounceDelay apart
SpecChurn == InitChurn /\ [][NextChurn]_vars

(***************************************************************************)
(* The scheduler's properties.                                             *)
(***************************************************************************)

\* nothing is left to happen but a further Lock: every goroutine is idle,
\* no callback runs and no timer is armed
Quiescent ==
    /\ \A t \in Threads : thr[t].pc = "idle"
    /\ NoCallback
    /\ \A i \in TimerIds : ~Armed(i)

\* C1: in every burst (from the notifyChanged that leaves idle to the
\* persist action that clears SaveState) the persist action runs exactly
\* once: never a second time, and once when nothing is left to happen.
C1_PersistOncePerBurst ==
    /\ hist.burstSaves <= 1
    /\ (Quiescent /\ hist.burstSaves # NotArmed) => hist.burstSaves = 1

\* C2: no burst is lost: once every armed timer has fired and nothing is
\* left to happen, a Save has started after every Unlock.
C2_NoLostBurst == Quiescent => hist.dirtyAge = NotArmed

\* C3: an Unlock that finds the collection idle and is followed by no other
\* Unlock leads to exactly one Save, started debounceDelay seconds after it
\* and writing the data as they are; no later timer starts a second one.
C3_DebounceOneSave ==
    hist.fromIdle =>
        /\ hist.savesSince <= 1
        /\ hist.savesSince = 1 => hist.firstSaveAge = debounceDelay
        /\ hist.unlockAge > debounceDelay => hist.savesSince = 1
        /\ (hist.savesSince = 1 /\ NoCallback /\ mutW = NoThread)
              => file = data

\* C4: while the Unlocks keep coming less than debounceDelay apart, the
\* oldest Unlock no Save has started after is at most maxDelay seconds old.
C4_MaxDelayBound ==
    hist.churn => hist.dirtyAge <= maxDelay

\* C5: while the Unlocks keep coming less than debounceDelay apart, no Save
\* starts before the burst is maxDelay seconds old, one starts when it is,
\* and no second one follows from the timers of that burst.
C5_OneWritePerWindow ==
    (hist.churn /\ hist.age # NotArmed /\ hist.age < MaxAge) =>
        /\ hist.saves <= 1
        /\ hist.saves = 1 => hist.firstSaveAt = maxDelay
        /\ hist.age > maxDelay => hist.saves = 1

(***************************************************************************)
(* The iterators: List.Range (list.go:144-170), Map.RangeV                 *)
(* (map.go:129-155) and Map.RangeKV (map.go:89-126).  One goroutine calls  *)
(* the method, receives from the channel and calls cancel; the method      *)
(* starts the producer goroutine.  A panic that is not recovered ends the  *)
(* process: no goroutine takes a step after it.                            *)
(***************************************************************************)

\* elements of the collection iterated, calls of cancel
MaxLen == 3
MaxCancels == 2

Values == {1, 2}
Keys == {"a", "b", "c"}

\* the lists of at most n values of S
SeqsUpTo(S, n) == UNION {[1..k -> S] : k \in 0..n}

\* the orders in which a for-range may visit the keys K of a map
Perms(K) ==
    {p \in [1..Cardinality(K) -> K] :
        \A i, j \in 1..Cardinality(K) : p[i] = p[j] => i = j}

\* the value sent for index / key k (list.go:164, map.go:119, map.go:149)
Elem(k) ==
    IF kind = "Range" THEN data[k]
    ELSE IF kind = "RangeV" THEN mdata[k]
    ELSE <<k, mdata[k]>>

\* The captured variables done and ch of RangeKV are read and written by
\* both goroutines without synchronisation.  W holds the goroutines that
\* stored nil in the variable or have seen the nil: such a goroutine reads
\* nil; another one reads nil or the channel, as long as nothing orders the
\* store before its read.
Sees(W, g) ==
    IF g \in W THEN {"nil"}
    ELSE IF W # {} THEN {"chan", "nil"}
    ELSE {"chan"}

Learn(W, g, d) == IF d = "nil" THEN W \cup {g} ELSE W

\* a hand-off on the unbuffered channel orders the stores of each side
\* before what the other side does next
Sync(W) == IF W = {} THEN W ELSE {"producer", "consumer"}

\* a receive that finds the channel closed is ordered after the stores the
\* producer made before close(ch)
SyncClosed(W) == IF "producer" \in W THEN W \cup {"consumer"} ELSE W

\* the case <-done of a select is ready, done having been read as d
DoneReady(d) == d = "chan" /\ done = "closed"

\* the consumer waits in <-ch: the case ch <- value is ready
ReceiverWaiting == cons.pc = "recv" /\ cons.ch = "chan"

\* where the deferred calls of the producer begin
DeferPc == IF kind = "RangeKV" THEN "deferIf" ELSE "closeDone"

\* the consumer has received e
Deliver(c, e) ==
    [c EXCEPT !.pc = "idle",
              !.received = Append(@, e),
              !.late = @ \/ c.cancels > 0]

\* the consumer has found the channel closed
Closed(c) == [c EXCEPT !.pc = "idle", !.sawClosed = TRUE]

\* cancel returns
Return(c) == [c EXCEPT !.pc = "idle", !.cancels = @ + 1]

iterFixed == <<collVars, saveVars, listVars, mapVars, userVars, errVars,
              storeVars, lockVars,
              kind, mdata,
              order>>

(***************************************************************************)
(* The producer goroutine (list.go:157-167, map.go:105-123, 143-152).      *)
(***************************************************************************)

\* the for-range has no element left: the function returns
forEnd ==
    /\ panicked = {}
    /\ prod.pc = "for"
    /\ prod.i > Len(order)
    /\ prod' = [prod EXCEPT !.pc = DeferPc]
    /\ UNCHANGED <<iterFixed, ch, done, doneVar, chVar, cons, panicked>>

\* a select with a default case: when no case is ready the producer gives
\* up and returns instead of waiting
selectDefault ==
    /\ panicked = {}
    /\ prod.pc = "for"
    /\ prod.i <= Len(order)
    /\ ~ReceiverWaiting
    /\ \E d \in Sees(doneVar, "producer") :
        /\ ~DoneReady(d)
        /\ prod' = [prod EXCEPT !.pc = DeferPc, !.dch = d]
        /\ doneVar' = Learn(doneVar, "producer", d)
    /\ UNCHANGED <<iterFixed, ch, done, chVar, cons, panicked>>

\* select: done is read, no case is ready and the goroutine waits on both
selectWait ==
    /\ panicked = {}
    /\ prod.pc = "for"
    /\ prod.i <= Len(order)
    /\ ~ReceiverWaiting
    /\ \E d \in Sees(doneVar, "producer") :
        /\ ~DoneReady(d)
        /\ prod' = [prod EXCEPT !.pc = "select", !.dch = d]
        /\ doneVar' = Learn(doneVar, "producer", d)
    /\ UNCHANGED <<iterFixed, ch, done, chVar, cons, panicked>>

\* select: case <-done is ready and is chosen; return
selectDone ==
    /\ panicked = {}
    /\ prod.pc = "for"
    /\ prod.i <= Len(order)
    /\ \E d \in Sees(doneVar, "producer") :
        /\ DoneReady(d)
        /\ prod' = [prod EXCEPT !.pc = DeferPc]
        /\ doneVar' = Learn(doneVar, "producer", d)
    /\ UNCHANGED <<iterFixed, ch, done, chVar, cons, panicked>>

\* select: case ch <- value is ready and is chosen, whether or not
\* case <-done is ready too
selectSend ==
    /\ panicked = {}
    /\ prod.pc = "for"
    /\ prod.i <= Len(order)
    /\ ReceiverWaiting
    /\ cons' = Deliver(cons, Elem(order[prod.i]))
    /\ prod' = [prod EXCEPT !.i = @ + 1]
    /\ doneVar' = Sync(doneVar)
    /\ UNCHANGED <<iterFixed, ch, done, chVar, panicked>>

\* map.go:107  if done != nil, in the deferred function of RangeKV
deferIf ==
    /\ panicked = {}
    /\ prod.pc = "deferIf"
    /\ \E d \in Sees(doneVar, "producer") :
        /\ prod' = [prod EXCEPT !.pc = IF d = "nil" THEN "closeCh"
                                       ELSE "closeDone"]
        /\ doneVar' = Learn(doneVar, "producer", d)
    /\ UNCHANGED <<iterFixed, ch, done, chVar, cons, panicked>>

\* close(done), deferred: closing a closed channel panics
closeDone ==
    /\ panicked = {}
    /\ prod.pc = "closeDone"
    /\ IF done = "closed"
       THEN /\ panicked' = {"producer"}
            /\ prod' = [prod EXCEPT !.pc = "panic"]
            /\ UNCHANGED done
       ELSE /\ done' = "closed"
            /\ prod' = [prod EXCEPT !.pc = IF kind = "RangeKV" THEN "deferNil"
                                           ELSE "closeCh"]
            /\ UNCHANGED panicked
    /\ UNCHANGED <<iterFixed, ch, doneVar, chVar, cons>>

\* map.go:109  done = nil
deferNil ==
    /\ panicked = {}
    /\ prod.pc = "deferNil"
    /\ doneVar' = doneVar \cup {"producer"}
    /\ prod' = [prod EXCEPT !.pc = "closeCh"]
    /\ UNCHANGED <<iterFixed, ch, done, chVar, cons, panicked>>

\* close(ch), deferred (in RangeKV followed by ch = nil): a consumer waiting
\* in <-ch finds the channel closed; the goroutine ends
closeCh ==
    /\ panicked = {}
    /\ prod.pc = "closeCh"
    /\ ch' = "closed"
    /\ chVar' = IF kind = "RangeKV" THEN {"producer"} ELSE chVar
    /\ prod' = [prod EXCEPT !.pc = "done"]
    /\ IF ReceiverWaiting
       THEN cons' = Closed(cons) /\ doneVar' = SyncClosed(doneVar)
       ELSE UNCHANGED <<cons, doneVar>>
    /\ UNCHANGED <<iterFixed, done, panicked>>

ProducerStep ==
    \/ forEnd
    \/ selectWait
    \/ selectDone
    \/ selectSend
    \/ deferIf
    \/ closeDone
    \/ deferNil
    \/ closeCh

(***************************************************************************)
(* The caller of the method: it takes the channel, receives and cancels.   *)
(***************************************************************************)

\* a Range that takes the shared lock of the collection before it returns
RangeReturnRLock ==
    /\ panicked = {}
    /\ cons.pc = "return"
    /\ mutW = NoThread
    /\ mutR' = mutR + 1
    /\ \E c \in Sees(chVar, "consumer") :
        cons' = [cons EXCEPT !.pc = "idle", !.ch = c]
    /\ UNCHANGED <<data, mutW, saveTimer, maxSaveTimer, saveOnce, file>>
    /\ UNCHANGED <<saveVars, listVars, mapVars, userVars, errVars, storeVars,
                   lockVars>>
    /\ UNCHANGED <<kind, mdata, order>>
    /\ UNCHANGED <<prod, ch, done, doneVar, chVar, panicked>>

\* return ch, cancel (list.go:169, map.go:125, 154): ch is read after the
\* producer was started
RangeReturn ==
    /\ panicked = {}
    /\ cons.pc = "return"
    /\ \E c \in Sees(chVar, "consumer") :
        cons' = [cons EXCEPT !.pc = "idle", !.ch = c]
    /\ UNCHANGED <<iterFixed, prod, ch, done, doneVar, chVar, panicked>>

\* <-ch while the producer waits in its select: the hand-off
ReceiveElement ==
    /\ panicked = {}
    /\ cons.pc = "idle"
    /\ cons.ch = "chan"
    /\ prod.pc = "select"
    /\ cons' = Deliver(cons, Elem(order[prod.i]))
    /\ prod' = [prod EXCEPT !.pc = "for", !.i = @ + 1]
    /\ doneVar' = Sync(doneVar)
    /\ UNCHANGED <<iterFixed, ch, done, chVar, panicked>>

\* <-ch on the closed channel
ReceiveClosed ==
    /\ panicked = {}
    /\ cons.pc = "idle"
    /\ cons.ch = "chan"
    /\ ch = "closed"
    /\ cons' = Closed(cons)
    /\ doneVar' = SyncClosed(doneVar)
    /\ UNCHANGED <<iterFixed, prod, ch, done, chVar, panicked>>

\* <-ch with no sender waiting and the channel open, or on a nil channel:
\* the consumer waits
ReceiveWait ==
    /\ panicked = {}
    /\ cons.pc = "idle"
    /\ \/ cons.ch = "nil"
       \/ prod.pc # "select" /\ ch = "open"
    /\ cons' = [cons EXCEPT !.pc = "recv"]
    /\ UNCHANGED <<iterFixed, prod, ch, done, doneVar, chVar, panicked>>

\* cancel(): the select of list.go:148-154, map.go:93-102, 133-139.  With
\* done closed the case <-done is taken and cancel returns; else default.
cancelSelect ==
    /\ panicked = {}
    /\ cons.pc = "idle"
    /\ cons.cancels < MaxCancels
    /\ \E d \in Sees(doneVar, "consumer") :
        /\ doneVar' = Learn(doneVar, "consumer", d)
        /\ LET c == [cons EXCEPT !.cancelAt = IF @ = NotArmed
                                              THEN Len(cons.received)
                                              ELSE @] IN
            cons' = IF DoneReady(d) THEN Return(c)
                    ELSE [c EXCEPT !.pc = IF kind = "RangeKV" THEN "cancelIf"
                                          ELSE "cancelClose"]
    /\ UNCHANGED <<iterFixed, prod, ch, done, chVar, panicked>>

\* map.go:98  if done != nil, in the cancel of RangeKV
cancelIf ==
    /\ panicked = {}
    /\ cons.pc = "cancelIf"
    /\ \E d \in Sees(doneVar, "consumer") :
        /\ doneVar' = Learn(doneVar, "consumer", d)
        /\ cons' = IF d = "nil" THEN Return(cons)
                   ELSE [cons EXCEPT !.pc = "cancelClose"]
    /\ UNCHANGED <<iterFixed, prod, ch, done, chVar, panicked>>

\* close(done) in cancel (list.go:153, map.go:99, 138): closing a closed
\* channel panics; a producer waiting in its select on this channel is
\* woken with the case <-done
cancelClose ==
    /\ panicked = {}
    /\ cons.pc = "cancelClose"
    /\ IF done = "closed"
       THEN /\ panicked' = {"consumer"}
            /\ cons' = [cons EXCEPT !.pc = "panic"]
            /\ UNCHANGED <<done, prod>>
       ELSE /\ done' = "closed"
            /\ prod' = IF prod.pc = "select" /\ prod.dch = "chan"
                       THEN [prod EXCEPT !.pc = DeferPc]
                       ELSE prod
            /\ cons' = IF kind = "RangeKV"
                       THEN [cons EXCEPT !.pc = "cancelNil"]
                       ELSE Return(cons)
            /\ UNCHANGED panicked
    /\ UNCHANGED <<iterFixed, ch, doneVar, chVar>>

\* map.go:100  done = nil
cancelNil ==
    /\ panicked = {}
    /\ cons.pc = "cancelNil"
    /\ doneVar' = doneVar \cup {"consumer"}
    /\ cons' = Return(cons)
    /\ UNCHANGED <<iterFixed, prod, ch, done, chVar, panicked>>

ConsumerStep ==
    \/ RangeReturn
    \/ ReceiveElement
    \/ ReceiveClosed
    \/ ReceiveWait
    \/ cancelSelect
    \/ cancelIf
    \/ cancelClose
    \/ cancelNil

\* the state when the method has started the producer (list.go:157,
\* map.go:105, 143) over a list of at most MaxLen values or a map of the
\* keys K, and has not returned yet
InitIter ==
    /\ SchedulerInit(0)
    /\ NoCall
    /\ kind \in {"Range", "RangeV", "RangeKV"}
    /\ \/ /\ kind = "Range"
          /\ data \in SeqsUpTo(Values, MaxLen)
          /\ mdata = <<>>
          /\ order = [i \in 1..Len(data) |-> i]
       \/ /\ kind # "Range"
          /\ data = <<>>
          /\ \E K \in SUBSET Keys :
                /\ mdata \in [K -> Values]
                /\ order \in Perms(K)
    /\ prod = [pc |-> "for", i |-> 1, dch |-> "chan"]
    /\ ch = "open" /\ done = "open"
    /\ doneVar = {} /\ chVar = {}
    /\ cons = [pc |-> "return", ch |-> "chan", received |-> <<>>,
               sawClosed |-> FALSE, cancels |-> 0, cancelAt |-> NotArmed,
               late |-> FALSE]
    /\ panicked = {}

NextIter == ProducerStep \/ ConsumerStep

\* one iterator, every interleaving of the two goroutines
SpecIter == InitIter /\ [][NextIter]_vars

\* the same, the scheduler letting the producer run whenever it can
SpecIterFair == SpecIter /\ WF_vars(ProducerStep)

(***************************************************************************)
(* The iterators' properties.                                              *)
(***************************************************************************)

\* C6: for List.Range and Map.RangeV calling cancel is safe at any point:
\* neither cancel nor the producer panics (done is never closed twice)
C6_CancelSafe == kind \in {"Range", "RangeV"} => panicked = {}

\* C7: once a call of cancel has returned, the consumer receives no further
\* element, however long it keeps receiving
C7_NothingAfterCancel == ~cons.late

\* cancel was first called after some but not all elements were received
CancelledMid == cons.cancelAt > 0 /\ cons.cancelAt < Len(order)

\* C8: after cancel is called mid-iteration the producer terminates
\* normally and closes the element channel, whatever the consumer does
C8_ProducerTerminates == CancelledMid ~> (prod.pc = "done" /\ ch = "closed")

\* the first n elements in the order of the for-range
Sent(n) == [j \in 1..n |-> Elem(order[j])]

\* While cancel is not called nothing panics, the elements arrive in the
\* order of the for-range (for a list the positions 0..n-1), each once and
\* one hand-off at a time; when the consumer finds the channel closed it
\* has received them all and the producer has terminated; over an empty
\* collection the producer never waits.
IterationDelivers ==
    cons.cancelAt = NotArmed =>
        /\ panicked = {}
        /\ cons.received = Sent(Len(cons.received))
        /\ kind = "Range" =>
               cons.received = SubSeq(data, 1, Len(cons.received))
        /\ prod.i = Len(cons.received) + 1
        /\ cons.sawClosed =>
               /\ Len(cons.received) = Len(order)
               /\ prod.pc = "done" /\ ch = "closed"
        /\ order = <<>> => prod.pc # "select"

\* C9: while cancel is not called the iterator delivers every element once,
\* in order, and then closes the channel (IterationDelivers), and the
\* channel the caller gets for an empty collection is the one the producer
\* closes, so that a receive finds it closed
C9_FullIteration ==
    /\ IterationDelivers
    /\ (cons.cancelAt = NotArmed /\ order = <<>>) => cons.ch = "chan"

(***************************************************************************)
(* Get, Set and Append of memoryList (list.go:84-134), called by one       *)
(* goroutine that holds the lock.  An index i of Go is the position i + 1  *)
(* of the sequence data.                                                   *)
(***************************************************************************)

\* the zero value of the element type
Zero == 0

\* the index expression l.data[index]: out of range it panics
Index(d, i) ==
    IF 0 <= i /\ i < Len(d)
    THEN [value |-> d[i + 1], panic |-> FALSE]
    ELSE [value |-> Zero, panic |-> TRUE]

\* list.go:84-92: what Get returns; the element is read in the branch
\* taken when index < 0 || index >= len(l.data)
ListGet(d, i) ==
    IF i < 0 \/ i >= Len(d)
    THEN LET x == Index(d, i) IN
         [value |-> x.value, found |-> ~x.panic, panic |-> x.panic]
    ELSE [value |-> Zero, found |-> FALSE, panic |-> FALSE]

\* Set with the upper bound tested as index > len(l.data)
ListSetOffByOne(d, i, v) ==
    IF i < 0 \/ i > Len(d)
    THEN [data |-> d, err |-> TRUE]
    ELSE [data |-> [d EXCEPT ![i + 1] = v], err |-> FALSE]

\* list.go:128-134: the data after Set and whether it returned an error
ListSet(d, i, v) ==
    IF i < 0 \/ i >= Len(d)
    THEN [data |-> d, err |-> TRUE]
    ELSE [data |-> [d EXCEPT ![i + 1] = v], err |-> FALSE]

\* the functions passed for equal (list.go:48): identity and an order,
\* called as equal(x, value) with x the element of the list
Equals == {"same", "leq"}

Equal(e, a, b) == IF e = "same" THEN a = b ELSE a <= b

\* list.go:99-103: the loop over l.data from position k on finds an element
\* equal to v
RECURSIVE AnyEqual(_, _, _, _)
AnyEqual(d, v, e, k) ==
    IF k > Len(d) THEN FALSE
    ELSE IF Equal(e, d[k], v) THEN TRUE
    ELSE AnyEqual(d, v, e, k + 1)

\* AppendUnique that appends whatever the list holds
ListAppendUniqueAlways(d, v, e) == [data |-> Append(d, v), added |-> TRUE]

\* list.go:98-106: the data after AppendUnique and what it returned
ListAppendUnique(d, v, e) ==
    IF AnyEqual(d, v, e, 1)
    THEN [data |-> d, added |-> FALSE]
    ELSE [data |-> Append(d, v), added |-> TRUE]

\* the indices the caller passes
Indices == (0 - 1)..MaxLen

\* a panic that is not recovered ends the process
Alive == ~ret.panic

\* value, found := l.Get(i)
CallGet(i) ==
    /\ Alive
    /\ LET r == ListGet(data, i) IN
        ret' = [op |-> "Get", index |-> i, value |-> r.value, eq |-> "none",
                found |-> r.found, added |-> FALSE, err |-> FALSE,
                panic |-> r.panic]
    /\ UNCHANGED <<collVars, saveVars, iterVars, mapVars, userVars, errVars,
                   storeVars, lockVars, setAt>>

\* err := l.Set(i, v)
CallSet(i, v) ==
    /\ Alive
    /\ LET r == ListSet(data, i, v) IN
        /\ data' = r.data
        /\ ret' = [op |-> "Set", index |-> i, value |-> v, eq |-> "none",
                   found |-> FALSE, added |-> FALSE, err |-> r.err,
                   panic |-> FALSE]
        /\ setAt' = IF r.err THEN setAt
                    ELSE {p \in setAt : p[1] # i} \cup {<<i, v>>}
    /\ UNCHANGED <<mutW, mutR, saveTimer, maxSaveTimer, saveOnce, file,
                   saveVars, iterVars, mapVars, userVars, errVars, storeVars,
                   lockVars>>

\* l.Append(v) (list.go:94-96)
CallAppend(v) ==
    /\ Alive
    /\ Len(data) < MaxLen
    /\ data' = Append(data, v)
    /\ ret' = [op |-> "Append", index |-> Len(data), value |-> v,
               eq |-> "none", found |-> FALSE, added |-> FALSE,
               err |-> FALSE, panic |-> FALSE]
    /\ UNCHANGED <<mutW, mutR, saveTimer, maxSaveTimer, saveOnce, file,
                   saveVars, iterVars, mapVars, userVars, errVars,
                   storeVars, lockVars, setAt>>

\* added := l.AppendUnique(v, equal)
CallAppendUnique(v, e) ==
    /\ Alive
    /\ LET r == ListAppendUnique(data, v, e) IN
        /\ Len(r.data) <= MaxLen
        /\ data' = r.data
        /\ ret' = [op |-> "AppendUnique", index |-> Len(data), value |-> v,
                   eq |-> e, found |-> FALSE, added |-> r.added,
                   err |-> FALSE, panic |-> FALSE]
    /\ UNCHANGED <<mutW, mutR, saveTimer, maxSaveTimer, saveOnce, file,
                   saveVars, iterVars, mapVars, userVars, errVars,
                   storeVars, lockVars, setAt>>

\* the list after LoadList on a missing file (list.go:216-225)
InitList ==
    /\ data = <<>>
    /\ SchedulerInit(0) /\ NoIterator /\ NoCall

NextList ==
    \/ \E i \in Indices : CallGet(i)
    \/ \E i \in Indices, v \in Values : CallSet(i, v)
    \/ \E v \in Values : CallAppend(v)
    \/ \E v \in Values, e \in Equals : CallAppendUnique(v, e)

\* the calls on one list, in any order
SpecList == InitList /\ [][NextList]_vars

(***************************************************************************)
(* The list's properties.                                                  *)
(***************************************************************************)

\* C10: a Get(i) that follows a Set(i, v) which returned no error, with no
\* later write to i, returns v and found = true
C10_GetAfterSet ==
    ret.op = "Get" =>
        \A p \in setAt :
            p[1] = ret.index =>
                ~ret.panic /\ ret.found /\ ret.value = p[2]

\* C11: a Get with index < 0 or index >= Len() reports the failure as a
\* value, found = false with the zero value, and does not panic (Get leaves
\* the list as it is: CallGet changes ret only)
C11_GetOutOfRange ==
    (ret.op = "Get" /\ (ret.index < 0 \/ ret.index >= Len(data))) =>
        ~ret.panic /\ ~ret.found /\ ret.value = Zero

\* C12: a Set with index < 0 or index >= Len() returns an error and leaves
\* every element and the length as they were; a Set with an index in range
\* returns nil and changes the element at that index only
C12_SetBounds ==
    [][ret'.op = "Set" =>
          LET i == ret'.index IN
          IF i < 0 \/ i >= Len(data)
          THEN ret'.err /\ data' = data
          ELSE /\ ~ret'.err
               /\ Len(data') = Len(data)
               /\ \A j \in 0..(Len(data) - 1) :
                     data'[j + 1] = IF j = i THEN ret'.value ELSE data[j + 1]
       ]_vars

\* a Set out of range has returned its error on a list of two or more
\* elements on which a Set in range had succeeded before
C12_Witness ==
    /\ ret.op = "Set" /\ ret.err
    /\ Len(data) >= 2
    /\ \E p \in setAt : data[p[1] + 1] = p[2]

\* C13: AppendUnique(v, equal) returns true and appends v at the end, the
\* elements before it unchanged, exactly when no element x of the list
\* satisfies equal(x, v); otherwise it returns false and leaves the list as
\* it is.  A second call with the same arguments right after one that
\* returned true returns false and leaves the length as it is.
C13_AppendUnique ==
    [][ret'.op = "AppendUnique" =>
          /\ IF \E j \in 1..Len(data) : Equal(ret'.eq, data[j], ret'.value)
             THEN ~ret'.added /\ data' = data
             ELSE /\ ret'.added
                  /\ Len(data') = Len(data) + 1
                  /\ SubSeq(data', 1, Len(data)) = data
                  /\ data'[Len(data')] = ret'.value
          /\ (/\ ret.op = "AppendUnique" /\ ret.added
              /\ ret'.value = ret.value /\ ret'.eq = ret.eq) =>
                 ~ret'.added /\ Len(data') = Len(data)
       ]_vars

\* AppendUnique has returned false for a value that an earlier element of a
\* list of two or more elements equals
C13_Witness ==
    /\ ret.op = "AppendUnique" /\ ~ret.added
    /\ Len(data) >= 2
    /\ \E j \in 1..Len(data) : Equal(ret.eq, data[j], ret.value)

(***************************************************************************)
(* Get, Set and Overwrite of memoryMap (map.go:157-193) on a map loaded by *)
(* loadMapFromJsonFile (map.go:236-251), called by one goroutine that      *)
(* holds the lock.  A Go map is a function on its keys, or the nil map.    *)
(***************************************************************************)

\* the maps with keys of Keys and values of Values
Maps == UNION {[K -> Values] : K \in SUBSET Keys}

\* make(map[string]T)
EmptyMap == [k \in {} |-> Zero]

\* what the file at location holds: nothing (no file), the JSON null, a
\* JSON object, or something that does not decode into a map
MapFiles ==
    {[json |-> "missing", object |-> EmptyMap],
     [json |-> "null", object |-> EmptyMap],
     [json |-> "invalid", object |-> EmptyMap]}
    \cup {[json |-> "object", object |-> m] : m \in Maps}

\* map.go:236-251: the map after loading; json.Decoder.Decode sets a map to
\* nil for the JSON null and fills the map made at map.go:237 for an object
loadMapFromJsonFile(f) ==
    IF f.json = "missing" THEN [ok |-> TRUE, data |-> EmptyMap, nil |-> FALSE]
    ELSE IF f.json = "null" THEN [ok |-> TRUE, data |-> EmptyMap, nil |-> TRUE]
    ELSE IF f.json = "object"
         THEN [ok |-> TRUE, data |-> f.object, nil |-> FALSE]
    ELSE [ok |-> FALSE, data |-> EmptyMap, nil |-> TRUE]

\* map.go:157-160: value, found = m.data[key]; reading a nil map finds
\* nothing
MapGet(m, nil, k) ==
    IF ~nil /\ k \in DOMAIN m
    THEN [value |-> m[k], found |-> TRUE]
    ELSE [value |-> Zero, found |-> FALSE]

\* map.go:182-185: _, ok := m.data[key]; return ok
MapHas(m, nil, k) == ~nil /\ k \in DOMAIN m

\* a Set that makes a new map of the one entry
MapSetAlone(m, nil, k, v) ==
    IF nil THEN [data |-> m, nil |-> nil, panic |-> TRUE]
    ELSE [data |-> [x \in {k} |-> v], nil |-> FALSE, panic |-> FALSE]

\* map.go:187-189: m.data[key] = value; an assignment to an entry of a nil
\* map panics
MapSet(m, nil, k, v) ==
    IF nil THEN [data |-> m, nil |-> nil, panic |-> TRUE]
    ELSE [data |-> [x \in DOMAIN m \cup {k} |-> IF x = k THEN v ELSE m[x]],
          nil |-> FALSE, panic |-> FALSE]

mapFixed == <<collVars, saveVars, listVars, userVars, errVars, storeVars,
              lockVars,
              kind, order,
              prod, ch,
              done, doneVar, chVar, cons, panicked>>

\* a panic that is not recovered ends the process
MapAlive == ~mret.panic

\* value, found := m.Get(k)
CallMapGet(k) ==
    /\ MapAlive
    /\ LET r == MapGet(mdata, mnil, k) IN
        mret' = [op |-> "Get", key |-> k, value |-> r.value,
                 found |-> r.found, panic |-> FALSE]
    /\ UNCHANGED <<mapFixed, mdata, mnil>>

\* found := m.Has(k)
CallMapHas(k) ==
    /\ MapAlive
    /\ mret' = [op |-> "Has", key |-> k, value |-> Zero,
                found |-> MapHas(mdata, mnil, k), panic |-> FALSE]
    /\ UNCHANGED <<mapFixed, mdata, mnil>>

\* m.Set(k, v)
CallMapSet(k, v) ==
    /\ MapAlive
    /\ LET r == MapSet(mdata, mnil, k, v) IN
        /\ mdata' = r.data
        /\ mnil' = r.nil
        /\ mret' = [op |-> "Set", key |-> k, value |-> v, found |-> FALSE,
                    panic |-> r.panic]
    /\ UNCHANGED mapFixed

\* m.Overwrite(values) (map.go:191-193): m.data = values, nil included
CallMapOverwrite(values, nil) ==
    /\ MapAlive
    /\ mdata' = values
    /\ mnil' = nil
    /\ mret' = [op |-> "Overwrite", key |-> "", value |-> Zero,
                found |-> FALSE, panic |-> FALSE]
    /\ UNCHANGED mapFixed

\* the map LoadMap returns (map.go:225-234) for a file of MapFiles that
\* loads
InitMap ==
    /\ data = <<>>
    /\ SchedulerInit(0)
    /\ kind = "none"
    /\ order = <<>>
    /\ prod = [pc |-> "none", i |-> 1, dch |-> "chan"]
    /\ ch = "open" /\ done = "open"
    /\ doneVar = {} /\ chVar = {}
    /\ cons = [pc |-> "none", ch |-> "chan", received |-> <<>>,
               sawClosed |-> FALSE, cancels |-> 0, cancelAt |-> NotArmed,
               late |-> FALSE]
    /\ panicked = {}
    /\ ret = [op |-> "none", index |-> 0, value |-> 0, eq |-> "none",
              found |-> FALSE, added |-> FALSE, err |-> FALSE,
              panic |-> FALSE]
    /\ setAt = {}
    /\ \E f \in MapFiles :
        LET l == loadMapFromJsonFile(f) IN
        /\ l.ok
        /\ mdata = l.data
        /\ mnil = l.nil
    /\ mret = [op |-> "none", key |-> "", value |-> Zero, found |-> FALSE,
               panic |-> FALSE]
    /\ NoUser

NextMap ==
    \/ \E k \in Keys : CallMapGet(k)
    \/ \E k \in Keys : CallMapHas(k)
    \/ \E k \in Keys, v \in Values : CallMapSet(k, v)
    \/ \E m \in Maps : CallMapOverwrite(m, FALSE)
    \/ CallMapOverwrite(EmptyMap, TRUE)

\* the calls on one map, in any order
SpecMap == InitMap /\ [][NextMap]_vars

(***************************************************************************)
(* The map's properties.                                                   *)
(***************************************************************************)

\* C14: Set never fails: in every state reached by loading, Set and
\* Overwrite it does not panic and a Get of the key then returns the value
\* and found = true
C14_MapSetNeverFails ==
    [][mret'.op = "Set" =>
          /\ ~mret'.panic
          /\ MapGet(mdata', mnil', mret'.key) =
                 [value |-> mret'.value, found |-> TRUE]
       ]_vars

\* C27: a Set(k, v) that returns leaves a map in which Get(k) is (v, true),
\* Has(k) is true and every other key has the entry it had; Has(key) is
\* true exactly when Get(key) finds the key; Get and Has never panic, leave
\* the map as it is and report a key that is not in the map as not found.
C27_SetGetHas ==
    [][/\ mret'.op = "Set" /\ ~mret'.panic =>
            /\ MapGet(mdata', mnil', mret'.key) =
                   [value |-> mret'.value, found |-> TRUE]
            /\ MapHas(mdata', mnil', mret'.key)
            /\ \A x \in Keys \ {mret'.key} :
                   MapGet(mdata', mnil', x) = MapGet(mdata, mnil, x)
       /\ mret'.op \in {"Get", "Has"} =>
            /\ ~mret'.panic
            /\ mdata' = mdata /\ mnil' = mnil
            /\ mret'.found = (~mnil /\ mret'.key \in DOMAIN mdata)
            /\ mret'.op = "Get" /\ mret'.found =>
                   mret'.value = mdata[mret'.key]
       /\ \A x \in Keys :
            MapHas(mdata', mnil', x) = MapGet(mdata', mnil', x).found]_vars

\* Set("a", 2) has returned on a map that held "a" and "b": "a" has the new
\* value and "b" the one it had
C27_Witness ==
    /\ mret.op = "Set" /\ ~mret.panic /\ mret.key = "a" /\ mret.value = 2
    /\ ~mnil /\ DOMAIN mdata = {"a", "b"}
    /\ mdata["a"] = 2 /\ mdata["b"] = 1

(***************************************************************************)
(* Explicit Save, RLock / RUnlock and the helpers Read, ReadE, Write and   *)
(* WriteE beside the save scheduler.  The goroutines of Threads write:     *)
(* Lock, the f of the caller, Unlock and its notifyChanged.  One more      *)
(* goroutine, "U", reads under RLock and calls Save itself.  UserUnlocks    *)
(* bounds the critical sections and Saves of all of them together.         *)
(***************************************************************************)

UserUnlocks == 2
MaxLogged == 2

\* how the f given to a helper ends
Failures == {"err", "panic"}
Outcomes == {"ok"} \cup Failures

userFixed == <<iterVars, listVars, mapVars, errVars, storeVars, lockVars>>

\* the f of WriteE returns an error or panics before it changed anything;
\* the deferred s.Unlock() is what runs next, and after it a panic goes on
\* to the caller, which recovers
fFails(t, out) ==
    /\ thr[t].pc = "locked"
    /\ thr' = [thr EXCEPT ![t].pc = "mutated"]
    /\ fout' = [fout EXCEPT ![t] = out]
    /\ UNCHANGED <<collVars, timers, onces, acted, budget, hist, usr, logged>>
    /\ UNCHANGED userFixed

\* an RLock that does not wait for the writer
UserRLockNoWait ==
    /\ usr.pc = "idle"
    /\ budget > 0
    /\ mutR' = mutR + 1
    /\ usr' = [usr EXCEPT !.pc = "reading"]
    /\ budget' = budget - 1
    /\ UNCHANGED <<data, mutW, saveTimer, maxSaveTimer, saveOnce, file,
                   timers, onces, thr, acted, hist, fout, logged>>
    /\ UNCHANGED userFixed

\* l.mut.RLock(), from RLock or from ReadE: blocks while a writer holds the
\* lock
UserRLock ==
    /\ usr.pc = "idle"
    /\ budget > 0
    /\ mutW = NoThread
    /\ mutR' = mutR + 1
    /\ usr' = [usr EXCEPT !.pc = "reading"]
    /\ budget' = budget - 1
    /\ UNCHANGED <<data, mutW, saveTimer, maxSaveTimer, saveOnce, file,
                   timers, onces, thr, acted, hist, fout, logged>>
    /\ UNCHANGED userFixed

\* a ReadE that calls RUnlock after f and does not defer it: a panic of f
\* leaves the shared lock taken
UserRUnlockNoDefer(out) ==
    /\ usr.pc = "reading"
    /\ mutR' = IF out = "panic" THEN mutR ELSE mutR - 1
    /\ usr' = [usr EXCEPT !.pc = "idle"]
    /\ fout' = [fout EXCEPT !["U"] = out]
    /\ UNCHANGED <<data, mutW, saveTimer, maxSaveTimer, saveOnce, file,
                   saveVars, logged>>
    /\ UNCHANGED userFixed

\* the f of ReadE ends, by a return or by a panic; the deferred
\* s.RUnlock() runs, and the panic goes on to the caller, which recovers
UserRUnlock(out) ==
    /\ usr.pc = "reading"
    /\ mutR' = mutR - 1
    /\ usr' = [usr EXCEPT !.pc = "idle"]
    /\ fout' = [fout EXCEPT !["U"] = out]
    /\ UNCHANGED <<data, mutW, saveTimer, maxSaveTimer, saveOnce, file,
                   saveVars, logged>>
    /\ UNCHANGED userFixed

\* a Save that takes no lock before it reads the data
UserSaveNoLock ==
    /\ usr.pc = "idle"
    /\ budget > 0
    /\ mutR' = mutR + 1
    /\ usr' = [usr EXCEPT !.pc = "create", !.err = "none"]
    /\ budget' = budget - 1
    /\ UNCHANGED <<data, mutW, saveTimer, maxSaveTimer, saveOnce, file,
                   timers, onces, thr, acted, hist, fout, logged>>
    /\ UNCHANGED userFixed

\* Save called by the program: l.RLock(); defer l.RUnlock()
UserSaveRLock ==
    /\ usr.pc = "idle"
    /\ budget > 0
    /\ mutW = NoThread
    /\ mutR' = mutR + 1
    /\ usr' = [usr EXCEPT !.pc = "create", !.err = "none"]
    /\ budget' = budget - 1
    /\ UNCHANGED <<data, mutW, saveTimer, maxSaveTimer, saveOnce, file,
                   timers, onces, thr, acted, hist, fout, logged>>
    /\ UNCHANGED userFixed

\* a Save that gives the error of os.Create to log, as the callback does
\* with the error of its Save
UserSaveCreateLogs(ok) ==
    /\ usr.pc = "create"
    /\ IF ok
       THEN /\ file' = <<>> /\ usr' = [usr EXCEPT !.pc = "encode"]
            /\ logged' = logged
       ELSE /\ file' = file /\ usr' = [usr EXCEPT !.pc = "return"]
            /\ logged' = IF logged < MaxLogged THEN logged + 1 ELSE logged
    /\ UNCHANGED <<data, mutW, mutR, saveTimer, maxSaveTimer, saveOnce,
                   saveVars, fout>>
    /\ UNCHANGED userFixed

\* os.Create(l.location): truncates the file, or fails and Save returns
UserSaveCreate(ok) ==
    /\ usr.pc = "create"
    /\ IF ok
       THEN file' = <<>> /\ usr' = [usr EXCEPT !.pc = "encode"]
       ELSE file' = file /\ usr' = [usr EXCEPT !.pc = "return",
                                               !.err = "create"]
    /\ UNCHANGED <<data, mutW, mutR, saveTimer, maxSaveTimer, saveOnce,
                   saveVars, fout, logged>>
    /\ UNCHANGED userFixed

\* encoder.Encode(l.data): writes the data, or fails
UserSaveEncode(ok) ==
    /\ usr.pc = "encode"
    /\ IF ok
       THEN file' = data /\ usr' = [usr EXCEPT !.pc = "return"]
       ELSE file' = file /\ usr' = [usr EXCEPT !.pc = "return",
                                               !.err = "encode"]
    /\ UNCHANGED <<data, mutW, mutR, saveTimer, maxSaveTimer, saveOnce,
                   saveVars, fout, logged>>
    /\ UNCHANGED userFixed

\* a Save that ends the burst it found: it stops the timers and clears the
\* SaveState as the callback does
UserSaveEndsBurst ==
    /\ usr.pc = "return"
    /\ mutR' = mutR - 1
    /\ usr' = [usr EXCEPT !.pc = "idle"]
    /\ Heap([i \in TimerIds |-> [timers[i] EXCEPT !.due = NotArmed]], onces,
            Nil, Nil, Nil, thr)
    /\ UNCHANGED <<data, mutW, file, acted, budget, hist, fout, logged>>
    /\ UNCHANGED userFixed

\* Save returns: the deferred l.RUnlock()
UserSaveReturn ==
    /\ usr.pc = "return"
    /\ mutR' = mutR - 1
    /\ usr' = [usr EXCEPT !.pc = "idle"]
    /\ UNCHANGED <<data, mutW, saveTimer, maxSaveTimer, saveOnce, file,
                   saveVars, fout, logged>>
    /\ UNCHANGED userFixed

\* the Save of the callback fails, at os.Create or at Encode; the deferred
\* RUnlock; log(err); the once is done
SaveFail(i, created) ==
    /\ timers[i].cb = "write"
    /\ file' = IF created THEN <<>> ELSE file
    /\ mutR' = mutR - 1
    /\ logged' = IF logged < MaxLogged THEN logged + 1 ELSE logged
    /\ LET o == timers[i].once IN
        Heap([j \in TimerIds |->
                 [timers[j] EXCEPT !.once = Done(o, @),
                                   !.cb = IF j = i THEN "none" ELSE @]],
             onces, saveTimer, maxSaveTimer, Done(o, saveOnce),
             [t \in Threads |-> [thr[t] EXCEPT !.once = Done(o, @)]])
    /\ UNCHANGED <<data, mutW, acted, budget, hist, usr, fout>>
    /\ UNCHANGED userFixed

\* a second passes, the goroutine "U" too has finished what it was doing
TickUser == usr.pc = "idle" /\ Tick

UserStep ==
    \/ UserRLock
    \/ \E out \in Outcomes : UserRUnlock(out)
    \/ UserSaveRLock
    \/ \E ok \in BOOLEAN : UserSaveCreate(ok)
    \/ \E ok \in BOOLEAN : UserSaveEncode(ok)
    \/ UserSaveReturn

InitUser ==
    /\ data = <<>>
    /\ SchedulerInit(UserUnlocks)
    /\ NoIterator
    /\ NoCall

NextUser ==
    \/ Step(Threads)
    \/ \E t \in Threads, out \in Failures : fFails(t, out)
    \/ UserStep
    \/ \E i \in TimerIds, created \in BOOLEAN : SaveFail(i, created)
    \/ TickUser

SpecUser == InitUser /\ [][NextUser]_vars

(***************************************************************************)
(* The claims about the lock, Save and the helpers.                        *)
(***************************************************************************)

\* the goroutines inside a write critical section
Writers == {t \in Threads : thr[t].pc \in {"locked", "mutated"}}

\* the Saves between their RLock and their RUnlock: of callbacks, of "U"
CallbackSaves == Cardinality({i \in TimerIds : timers[i].cb = "write"})
UserSaves == IF usr.pc \in {"create", "encode", "return"} THEN 1 ELSE 0

\* the holders of the shared lock
Readers == CallbackSaves + UserSaves + IF usr.pc = "reading" THEN 1 ELSE 0

\* this step is a Save writing its snapshot to the file
SnapshotTaken ==
    \/ usr.pc = "encode" /\ usr'.pc = "return" /\ usr'.err = "none"
    \/ \E i \in TimerIds :
          timers[i].cb = "write" /\ timers'[i].cb = "none" /\ logged' = logged

\* C15: the data change only inside a write critical section, at a moment
\* no Save is between its RLock and its RUnlock; and a Save, called by the
\* program or by the callback, writes the data as they are at a moment it
\* holds the shared lock and no goroutine is inside a write critical
\* section: no snapshot holds a part of a critical section.
C15_SnapshotNotTorn ==
    [][/\ data' # data =>
            Writers # {} /\ CallbackSaves = 0 /\ UserSaves = 0
       /\ SnapshotTaken =>
            Writers = {} /\ mutR >= 1 /\ file' = data /\ data' = data]_vars

\* "U" has saved one element while a goroutine was inside notifyChanged
C15_Witness ==
    /\ usr.pc = "return" /\ usr.err = "none"
    /\ file = data /\ Len(data) >= 1
    /\ ~NoNotify

\* C16: at any moment at most one goroutine is inside a write critical
\* section, or any number of holders have the shared lock, never both; the
\* mutex agrees with them.  So Lock waited for every holder and RLock, that
\* of Save too, waited for the writer.
C16_WriterOrReaders ==
    /\ Cardinality(Writers) <= 1
    /\ Writers # {} => Readers = 0
    /\ mutR = Readers
    /\ \A t \in Threads : t \in Writers <=> mutW = t

\* the Save of a callback and a Save of "U" hold the shared lock together
C16_Witness == CallbackSaves >= 1 /\ UserSaves = 1 /\ mutR = 2

\* this step takes or releases the shared lock, or is a step of "U"
ReaderStep == mutR' # mutR \/ usr' # usr

\* C17: every Unlock releases the exclusive lock and enters notifyChanged,
\* whatever the critical section did, and notifyChanged leaves its debounce
\* part with a timer armed debounceDelay ahead; a step that takes or
\* releases the shared lock, RUnlock and every step of a Save, leaves
\* saveTimer, maxSaveTimer and saveOnce as they are and arms no timer.
C17_UnlockNotifies ==
    [][/\ \A t \in Threads :
            thr[t].pc = "mutated" /\ thr'[t].pc # "mutated" =>
                mutW' = NoThread /\ thr'[t].pc = "getOnce"
       /\ \A t \in Threads :
            thr[t].pc # "getMax" /\ thr'[t].pc = "getMax" =>
                \E i \in TimerIds : timers'[i].due = debounceDelay
       /\ ReaderStep =>
            /\ saveTimer' = saveTimer /\ maxSaveTimer' = maxSaveTimer
            /\ saveOnce' = saveOnce
            /\ \A i \in TimerIds : timers'[i].due = timers[i].due]_vars

\* a critical section that changed nothing has armed a timer, and "U" has
\* released the shared lock meanwhile
C17_Witness ==
    /\ \E t \in Threads : fout[t] \in Failures
    /\ data = <<>>
    /\ \E i \in TimerIds : Armed(i)
    /\ fout["U"] = "ok" /\ usr.pc = "idle"

\* C18: while the f of Write or WriteE runs its goroutine holds the
\* exclusive lock, while the f of Read or ReadE runs "U" holds the shared
\* lock; a goroutine that is not between the Lock and the deferred Unlock of
\* a helper holds no exclusive lock, and when "U" is back from a helper the
\* only shared holders left are the Saves of callbacks: however f ended.
C18_HelpersRelease ==
    /\ \A t \in Threads :
          /\ thr[t].pc = "locked" => mutW = t /\ mutR = 0
          /\ thr[t].pc \notin {"locked", "mutated"} => mutW # t
    /\ usr.pc = "reading" => mutW = NoThread /\ mutR = CallbackSaves + 1
    /\ usr.pc = "idle" => mutR = CallbackSaves

\* the f of a WriteE has panicked and the f of a ReadE has returned an
\* error; both helpers are over and the lock is free
C18_Witness ==
    /\ \E t \in Threads :
          fout[t] = "panic" /\ thr[t].pc \notin {"locked", "mutated"}
    /\ fout["U"] = "err" /\ usr.pc = "idle"
    /\ mutW = NoThread /\ mutR = 0

\* this step is a step of a Save called by the program
UserSaveStep ==
    /\ usr' # usr
    /\ usr'.pc = "create" \/ usr.pc \in {"create", "encode", "return"}

\* C19: no step of a Save called by the program touches saveTimer,
\* maxSaveTimer, saveOnce, a timer or a once, so what was armed stays armed
\* for the same instant; and the Encode that reports no error has written
\* the data as they are.
C19_SaveBypassesScheduler ==
    [][UserSaveStep =>
          /\ saveTimer' = saveTimer /\ maxSaveTimer' = maxSaveTimer
          /\ saveOnce' = saveOnce
          /\ timers' = timers /\ onces' = onces
          /\ (usr.pc = "encode" /\ usr'.err = "none" => file' = data)]_vars

\* a Save of "U" has written the one element of a burst that was pending,
\* and the callback of that burst is now in its own Save
C19_Witness ==
    /\ usr.pc = "idle" /\ usr.err = "none"
    /\ budget = 0 /\ \A g \in Threads \cup {"U"} : fout[g] = "none"
    /\ Len(data) = 1 /\ file = data
    /\ CallbackSaves = 1

\* C20: a Save called by the program gives nothing to log and changes no
\* data, at any step; when os.Create or Encode fails the next thing it does
\* is to return, the error is what the caller gets, and the return
\* releases the shared lock: the holders left are the Saves of callbacks.
C20_SaveErrorReturned ==
    [][UserSaveStep =>
          /\ logged' = logged /\ data' = data
          /\ (usr.pc \in {"create", "encode"} /\ usr'.pc = "return" =>
                usr'.err \in {"none", usr.pc} /\ mutR' = mutR)
          /\ (usr.pc = "create" /\ usr'.pc = "encode" => usr'.err = "none")
          /\ (usr.pc = "return" =>
                /\ usr'.pc = "idle" /\ usr'.err = usr.err
                /\ mutR' = mutR - 1 /\ mutR' = CallbackSaves')]_vars

\* a Save of "U" has failed at Encode with one element in the list and has
\* returned; nothing was logged and the lock is free
C20_Witness ==
    /\ usr.pc = "idle" /\ usr.err = "encode"
    /\ Len(data) = 1 /\ file = <<>>
    /\ logged = 0 /\ mutR = 0 /\ mutW = NoThread

(***************************************************************************)
(* The error channel (save.go:19-35) and the Save of the callback that     *)
(* fails (save.go:58-60).  One goroutine writes; Err() is called at any    *)
(* moment or never; one goroutine receives from the channel when it likes. *)
(***************************************************************************)

ErrUnlocks == 3
MaxSunk == 2

errFixed == <<iterVars, listVars, mapVars, userVars, storeVars, lockVars>>

\* one more, up to MaxSunk
Counted(n) == IF n < MaxSunk THEN n + 1 ELSE n

\* the function given to once.Do returns: the once is done, the goroutine
\* of the callback ends
CallbackReturns(i) ==
    LET o == timers[i].once IN
    Heap([j \in TimerIds |->
             [timers[j] EXCEPT !.once = Done(o, @),
                               !.cb = IF j = i THEN "none" ELSE @]],
         onces, saveTimer, maxSaveTimer, Done(o, saveOnce),
         [t \in Threads |-> [thr[t] EXCEPT !.once = Done(o, @)]])

\* save.go:22-27  Err(): makes the channel at the first call
CallErr ==
    /\ errChan = "nil"
    /\ errChan' = "made"
    /\ UNCHANGED <<collVars, saveVars, recv, sink>>
    /\ UNCHANGED errFixed

\* the program receives from the channel Err() gave it: it waits for a
\* sender
Receive ==
    /\ errChan = "made"
    /\ recv = "away"
    /\ recv' = "waiting"
    /\ UNCHANGED <<collVars, saveVars, errChan, sink>>
    /\ UNCHANGED errFixed

\* list.go:193-200  the Save of the callback fails at os.Create, or at
\* Encode after os.Create has truncated the file; the deferred RUnlock
\* runs and Save returns the error to the callback
SaveFails(i, created) ==
    /\ timers[i].cb = "write"
    /\ file' = IF created THEN <<>> ELSE file
    /\ mutR' = mutR - 1
    /\ timers' = [timers EXCEPT ![i].cb = "log"]
    /\ sink' = [sink EXCEPT !.age = 0]
    /\ UNCHANGED <<data, mutW, saveTimer, maxSaveTimer, saveOnce, onces, thr,
                   acted, budget, hist>>
    /\ UNCHANGED <<errChan, recv, errFixed>>

\* save.go:30-34  log(err) with errChan nil: fmt.Println, and the callback
\* returns
logPrintln(i) ==
    /\ timers[i].cb = "log"
    /\ errChan = "nil"
    /\ sink' = [sink EXCEPT !.printed = Counted(@)]
    /\ CallbackReturns(i)
    /\ UNCHANGED <<data, mutW, mutR, file, acted, budget, hist>>
    /\ UNCHANGED <<errChan, recv, errFixed>>

\* save.go:30-31  log(err) with errChan made: errChan <- err, a send on a
\* channel without buffer, which waits for a receiver
logSend(i) ==
    /\ timers[i].cb = "log"
    /\ errChan = "made"
    /\ timers' = [timers EXCEPT ![i].cb = "send"]
    /\ UNCHANGED <<collVars, onces, thr, acted, budget, hist>>
    /\ UNCHANGED <<errVars, errFixed>>

\* the send meets the receive: the program has the error, log returns and
\* the callback with it
logSent(i) ==
    /\ timers[i].cb = "send"
    /\ recv = "waiting"
    /\ recv' = "away"
    /\ sink' = [sink EXCEPT !.received = Counted(@)]
    /\ CallbackReturns(i)
    /\ UNCHANGED <<data, mutW, mutR, file, acted, budget, hist>>
    /\ UNCHANGED <<errChan, errFixed>>

\* the callback of timer i cannot go on: it waits in its send and no
\* receiver is there, or it waits in once.Do for such a callback
Blocked(i) ==
    /\ recv = "away"
    /\ \/ timers[i].cb = "send"
       \/ /\ timers[i].cb = "do"
          /\ \E j \in TimerIds :
                timers[j].cb = "send" /\ timers[j].once = timers[i].once

\* a second passes: as Tick, with the callbacks that wait left waiting
TickErr ==
    /\ \A t \in Threads : thr[t].pc = "idle"
    /\ \A i \in TimerIds : timers[i].cb = "none" \/ Blocked(i)
    /\ \A i \in TimerIds : timers[i].due # 0
    /\ timers' = [i \in TimerIds |->
                    IF Armed(i) THEN [timers[i] EXCEPT !.due = @ - 1]
                    ELSE timers[i]]
    /\ acted' = {}
    /\ hist' = TickHist(hist)
    /\ sink' = [sink EXCEPT !.age = Older(@)]
    /\ UNCHANGED <<collVars, onces, thr, budget>>
    /\ UNCHANGED <<errChan, recv, errFixed>>

InitErr ==
    /\ data = <<>>
    /\ SchedulerInit(ErrUnlocks)
    /\ NoIterator
    /\ NoCall

NextErr ==
    \/ Step(ChurnThreads)
    \/ CallErr
    \/ Receive
    \/ \E i \in TimerIds, created \in BOOLEAN : SaveFails(i, created)
    \/ \E i \in TimerIds : logPrintln(i)
    \/ \E i \in TimerIds : logSend(i)
    \/ \E i \in TimerIds : logSent(i)
    \/ TickErr

SpecErr == InitErr /\ [][NextErr]_vars

(***************************************************************************)
(* The claims about the Save of the callback that fails.                   *)
(***************************************************************************)

\* C21: the error of a Save the scheduler ran is received from the channel
\* of Err() or, when no receiver is there, printed, and the callback
\* returns: no second passes with a callback waiting in its send.
C21_FailureSinks ==
    [][(\E i \in TimerIds : timers[i].cb = "send") => ~TickErr]_vars

\* nothing is left to happen but for the callbacks that wait for a receiver
Settled ==
    /\ \A t \in Threads : thr[t].pc = "idle"
    /\ \A i \in TimerIds : ~Armed(i) /\ (timers[i].cb = "none" \/ Blocked(i))

\* a Save of a callback has failed and an Unlock that came in a later
\* second has had no Save started after it
UnlockAfterFailureUnsaved ==
    /\ sink.age # NotArmed
    /\ hist.dirtyAge # NotArmed
    /\ hist.dirtyAge < sink.age

\* C22: a Save of a callback that fails changes no data and stops nothing,
\* and the bursts go on: once nothing is left to happen, a Save has started
\* after every Unlock that came after the failure.
C22_FailedSaveRetried ==
    /\ [][(\E i \in TimerIds : timers[i].cb = "write" /\ timers'[i].cb = "log")
             => data' = data /\ thr' = thr]_vars
    /\ [](Settled => ~UnlockAfterFailureUnsaved)

(***************************************************************************)
(* The file: json.NewEncoder(f).Encode(data) in Save (list.go:197-198,     *)
(* map.go:218-219) and json.NewDecoder(f).Decode(&data) in the loaders     *)
(* (list.go:228-229, map.go:246-247), for the element type int.  A file is *)
(* a sequence of tokens: brackets, commas, colons, the digits and the sign *)
(* of a number, the keys of an object, null and the newline Encode ends    *)
(* with.                                                                   *)
(***************************************************************************)

DigitChars == <<"0", "1", "2", "3", "4", "5", "6", "7", "8", "9">>
Digits == {DigitChars[n] : n \in 1..10}
DigitVal(c) == CHOOSE n \in 0..9 : DigitChars[n + 1] = c

\* a number as Encode writes it
RECURSIVE EncodeNat(_)
EncodeNat(n) ==
    IF n < 10 THEN <<DigitChars[n + 1]>>
    ELSE EncodeNat(n \div 10) \o <<DigitChars[(n % 10) + 1]>>

EncodeInt(n) == IF n < 0 THEN <<"-">> \o EncodeNat(0 - n) ELSE EncodeNat(n)

\* the tokens ts are a number
IsNat(ts) == Len(ts) >= 1 /\ \A j \in 1..Len(ts) : ts[j] \in Digits
IsInt(ts) ==
    IF ts # <<>> /\ ts[1] = "-" THEN IsNat(Tail(ts)) ELSE IsNat(ts)

RECURSIVE DecodeNat(_)
DecodeNat(ts) ==
    IF ts = <<>> THEN 0
    ELSE 10 * DecodeNat(SubSeq(ts, 1, Len(ts) - 1)) + DigitVal(ts[Len(ts)])

DecodeInt(ts) ==
    IF ts[1] = "-" THEN 0 - DecodeNat(Tail(ts)) ELSE DecodeNat(ts)

\* the items with commas between them
RECURSIVE Join(_)
Join(items) ==
    IF items = <<>> THEN <<>>
    ELSE IF Len(items) = 1 THEN items[1]
    ELSE items[1] \o <<",">> \o Join(Tail(items))

\* the tokens between the commas
RECURSIVE Split(_)
Split(ts) ==
    IF \E j \in 1..Len(ts) : ts[j] = ","
    THEN LET j == CHOOSE j \in 1..Len(ts) :
                     ts[j] = "," /\ \A h \in 1..(j - 1) : ts[h] # ","
         IN <<SubSeq(ts, 1, j - 1)>> \o Split(SubSeq(ts, j + 1, Len(ts)))
    ELSE <<ts>>

\* the tokens of the first value that begins with open and ends with close,
\* without the two; what follows the value is not read
Inner(ts, close) ==
    LET j == CHOOSE j \in 2..Len(ts) :
                 ts[j] = close /\ \A h \in 2..(j - 1) : ts[h] # close
    IN SubSeq(ts, 2, j - 1)

HasValue(ts, open, close) ==
    /\ ts # <<>> /\ ts[1] = open
    /\ \E j \in 2..Len(ts) : ts[j] = close

\* Encode of a slice: null for the nil slice
EncodeList(d, nil) ==
    IF nil THEN <<"null", "\n">>
    ELSE <<"[">> \o Join([j \in 1..Len(d) |-> EncodeInt(d[j])])
              \o <<"]", "\n">>

\* Decode into a slice: [ok, data, nil]
DecodeList(ts) ==
    IF ts # <<>> /\ ts[1] = "null"
    THEN [ok |-> TRUE, data |-> <<>>, nil |-> TRUE]
    ELSE IF ~HasValue(ts, "[", "]")
    THEN [ok |-> FALSE, data |-> <<>>, nil |-> FALSE]
    ELSE LET in == Inner(ts, "]")
             items == IF in = <<>> THEN <<>> ELSE Split(in)
         IN IF \A j \in 1..Len(items) : IsInt(items[j])
            THEN [ok |-> TRUE,
                  data |-> [j \in 1..Len(items) |-> DecodeInt(items[j])],
                  nil |-> FALSE]
            ELSE [ok |-> FALSE, data |-> <<>>, nil |-> FALSE]

\* the keys in the order Encode writes them: sorted
KeyOrder == <<"a", "b", "c">>
SortedKeys(K) == SelectSeq(KeyOrder, LAMBDA k : k \in K)

\* Encode of a map: null for the nil map
EncodeMap(m, nil) ==
    IF nil THEN <<"null", "\n">>
    ELSE LET ks == SortedKeys(DOMAIN m) IN
         <<"{">> \o Join([j \in 1..Len(ks) |->
                            <<ks[j], ":">> \o EncodeInt(m[ks[j]])])
              \o <<"}", "\n">>

IsEntry(ts) ==
    /\ Len(ts) >= 3 /\ ts[1] \in Keys /\ ts[2] = ":"
    /\ IsInt(SubSeq(ts, 3, Len(ts)))

\* Decode into the map made by the loader: [ok, data, nil]; of two entries
\* with one key the later stays
DecodeMap(ts) ==
    IF ts # <<>> /\ ts[1] = "null"
    THEN [ok |-> TRUE, data |-> EmptyMap, nil |-> TRUE]
    ELSE IF ~HasValue(ts, "{", "}")
    THEN [ok |-> FALSE, data |-> EmptyMap, nil |-> FALSE]
    ELSE LET in == Inner(ts, "}")
             items == IF in = <<>> THEN <<>> ELSE Split(in)
             last(k) == CHOOSE j \in 1..Len(items) :
                           /\ items[j][1] = k
                           /\ \A h \in (j + 1)..Len(items) : items[h][1] # k
         IN IF \A j \in 1..Len(items) : IsEntry(items[j])
            THEN [ok |-> TRUE,
                  data |-> [k \in {items[j][1] : j \in 1..Len(items)} |->
                              DecodeInt(SubSeq(items[last(k)], 3,
                                               Len(items[last(k)])))],
                  nil |-> FALSE]
            ELSE [ok |-> FALSE, data |-> EmptyMap, nil |-> FALSE]

(***************************************************************************)
(* LoadList / LoadMap (list.go:204-233, map.go:225-251) and Save           *)
(* (list.go:189-202, map.go:210-223) on the file system, one goroutine.    *)
(* A location is modelled by its suffix, the file system by the parent     *)
(* directory of the location and the file at the location.                 *)
(***************************************************************************)

StoreLen == 2
StoreValues == {0 - 3, 0, 12}
StoreKeys == {"a", "b"}
Suffixes == {".json", ".txt"}

StoreLists == SeqsUpTo(StoreValues, StoreLen)
StoreMaps == UNION {[K -> StoreValues] : K \in SUBSET StoreKeys}

\* what a file may hold before the program starts: what a Save wrote, the
\* same cut short, a value of another shape, nothing at all
StoreFiles ==
    {EncodeList(d, FALSE) : d \in StoreLists}
    \cup {EncodeMap(m, FALSE) : m \in StoreMaps}
    \cup {<<"null", "\n">>, <<>>, <<"[", "1", "2", ",">>, <<"{", "a", ":">>,
          <<"[", "a", "]", "\n">>}

\* the file systems the program may start on
Disks ==
    {[dir |-> d, mkdir |-> m, file |-> "missing", bytes |-> <<>>] :
        d \in BOOLEAN, m \in BOOLEAN}
    \cup {[dir |-> TRUE, mkdir |-> m, file |-> "denied", bytes |-> <<>>] :
            m \in BOOLEAN}
    \cup {[dir |-> TRUE, mkdir |-> m, file |-> "present", bytes |-> b] :
            m \in BOOLEAN, b \in StoreFiles}

NoColl == [kind |-> "none", suffix |-> "", list |-> <<>>, map |-> EmptyMap,
           nil |-> FALSE, err |-> "none"]

\* list.go:215-233, map.go:236-251: the collection and the error the JSON
\* loader returns, and the file system after it.  os.Open fails with
\* IsNotExist for a missing file: MkdirAll, and the empty collection is
\* returned with the error of MkdirAll.
loadFromJsonFile(k, suffix, dk) ==
    LET empty == [NoColl EXCEPT !.kind = k, !.suffix = suffix] IN
    IF dk.file = "missing"
    THEN IF dk.dir \/ dk.mkdir
         THEN [coll |-> empty, disk |-> [dk EXCEPT !.dir = TRUE]]
         ELSE [coll |-> [empty EXCEPT !.err = "mkdir"], disk |-> dk]
    ELSE IF dk.file = "denied"
    THEN [coll |-> [NoColl EXCEPT !.err = "open"], disk |-> dk]
    ELSE LET r == IF k = "list" THEN DecodeList(dk.bytes)
                  ELSE DecodeMap(dk.bytes)
         IN IF ~r.ok
            THEN [coll |-> [NoColl EXCEPT !.err = "decode"], disk |-> dk]
            ELSE [coll |-> [empty EXCEPT
                              !.list = IF k = "list" THEN r.data ELSE @,
                              !.map = IF k = "map" THEN r.data ELSE @,
                              !.nil = r.nil],
                  disk |-> dk]

\* a LoadList that returns what the loader returned, the collection with
\* the error
LoadKeepsCollection(k, suffix, dk) ==
    IF suffix = ".json" THEN loadFromJsonFile(k, suffix, dk)
    ELSE [coll |-> [NoColl EXCEPT !.err = "loader"], disk |-> dk]

\* list.go:204-213, map.go:225-234: the loader is chosen by the suffix; an
\* error of the loader is returned with nil for the collection
Load(k, suffix, dk) ==
    IF suffix = ".json"
    THEN LET r == loadFromJsonFile(k, suffix, dk) IN
         IF r.coll.err # "none"
         THEN [coll |-> [NoColl EXCEPT !.err = r.coll.err], disk |-> r.disk]
         ELSE r
    ELSE [coll |-> [NoColl EXCEPT !.err = "loader"], disk |-> dk]

storeFixed == <<collVars, saveVars, iterVars, listVars, mapVars, userVars,
                errVars, lockVars>>

\* l, err := LoadList(location) or m, err := LoadMap(location)
CallLoad(k, suffix) ==
    /\ LET r == Load(k, suffix, disk) IN
        /\ coll' = r.coll
        /\ disk' = r.disk
        /\ saved' = [saved EXCEPT
                        !.made = r.disk.dir /\ ~disk.dir,
                        !.loaded = @ \/ r.coll.err = "none"]
    /\ UNCHANGED storeFixed

\* l.Append(v) under the lock (list.go:94-96)
StoreAppend(v) ==
    /\ coll.kind = "list"
    /\ Len(coll.list) < StoreLen
    /\ coll' = [coll EXCEPT !.list = Append(@, v), !.nil = FALSE,
                            !.err = "none"]
    /\ UNCHANGED <<disk, saved, storeFixed>>

\* m.Set(k, v) under the lock (map.go:187-189); on the nil map the
\* assignment panics and the process ends
StoreSet(k, v) ==
    /\ coll.kind = "map"
    /\ ~MapSet(coll.map, coll.nil, k, v).panic
    /\ coll' = [coll EXCEPT !.map = MapSet(coll.map, coll.nil, k, v).data,
                            !.err = "none"]
    /\ UNCHANGED <<disk, saved, storeFixed>>

\* what Save encodes
Encoded(c) ==
    IF c.kind = "list" THEN EncodeList(c.list, c.nil)
    ELSE EncodeMap(c.map, c.nil)

\* a Save that opens the file without truncating it and writes after what
\* the file holds
StoreSaveAppends(createOk, encodeOk) ==
    /\ coll.kind # "none"
    /\ IF ~(disk.dir /\ disk.file # "denied" /\ createOk)
       THEN /\ coll' = [coll EXCEPT !.err = "create"]
            /\ UNCHANGED <<disk, saved>>
       ELSE IF ~encodeOk
       THEN /\ coll' = [coll EXCEPT !.err = "encode"]
            /\ disk' = [disk EXCEPT !.file = "present"]
            /\ UNCHANGED saved
       ELSE /\ coll' = [coll EXCEPT !.err = "none"]
            /\ disk' = [disk EXCEPT !.file = "present",
                                    !.bytes = @ \o Encoded(coll)]
            /\ saved' = [saved EXCEPT !.kind = coll.kind,
                                      !.list = coll.list,
                                      !.map = coll.map,
                                      !.loaded = FALSE]
    /\ UNCHANGED storeFixed

\* err := l.Save() (list.go:189-202, map.go:210-223): os.Create fails
\* without the parent directory or for a reason of its own, and truncates
\* the file when it succeeds; Encode writes the data or fails
StoreSave(createOk, encodeOk) ==
    /\ coll.kind # "none"
    /\ IF ~(disk.dir /\ disk.file # "denied" /\ createOk)
       THEN /\ coll' = [coll EXCEPT !.err = "create"]
            /\ UNCHANGED <<disk, saved>>
       ELSE IF ~encodeOk
       THEN /\ coll' = [coll EXCEPT !.err = "encode"]
            /\ disk' = [disk EXCEPT !.file = "present", !.bytes = <<>>]
            /\ UNCHANGED saved
       ELSE /\ coll' = [coll EXCEPT !.err = "none"]
            /\ disk' = [disk EXCEPT !.file = "present",
                                    !.bytes = Encoded(coll)]
            /\ saved' = [saved EXCEPT !.kind = coll.kind,
                                      !.list = coll.list,
                                      !.map = coll.map,
                                      !.loaded = FALSE]
    /\ UNCHANGED storeFixed

InitStore ==
    /\ data = <<>>
    /\ SchedulerInit(0)
    /\ NoIterator
    /\ NoCalls
    /\ NoProgram
    /\ disk \in Disks
    /\ coll = NoColl
    /\ saved = [kind |-> "none", list |-> <<>>, map |-> EmptyMap,
                made |-> FALSE, loaded |-> FALSE]

NextStore ==
    \/ \E k \in {"list", "map"}, suffix \in Suffixes : CallLoad(k, suffix)
    \/ \E v \in StoreValues : StoreAppend(v)
    \/ \E k \in StoreKeys, v \in StoreValues : StoreSet(k, v)
    \/ \E createOk \in BOOLEAN, encodeOk \in BOOLEAN :
          StoreSave(createOk, encodeOk)

\* loads, mutations and Saves of one program on one location
SpecStore == InitStore /\ [][NextStore]_vars

(***************************************************************************)
(* The claims about loading and saving.                                    *)
(***************************************************************************)

\* what a load of a missing file is to do: the empty collection of kind k
\* bound to the location and no error, the parent directory there
\* afterwards; or, the directory not to be made, an error and no collection
LoadsMissing(k, suffix) ==
    IF disk.dir \/ disk.mkdir
    THEN /\ coll' = [NoColl EXCEPT !.kind = k, !.suffix = suffix]
         /\ disk'.dir /\ disk'.file = "missing"
    ELSE /\ coll'.err # "none" /\ coll'.kind = "none"
         /\ disk' = disk

\* C23 as stated: LoadList and LoadMap of a location whose file does not
\* exist return the empty collection and no error and leave the parent
\* directory made, or return the error of making it and no collection,
\* whatever the location.
C23_LoadMissing ==
    [][\A k \in {"list", "map"}, suffix \in Suffixes :
          CallLoad(k, suffix) /\ disk.file = "missing" =>
              LoadsMissing(k, suffix)]_vars

\* C23, amended: the same for a location that ends in ".json", the one
\* suffix a loader exists for.
C23_LoadMissingJson ==
    [][\A k \in {"list", "map"} :
          CallLoad(k, ".json") /\ disk.file = "missing" =>
              LoadsMissing(k, ".json")]_vars

\* a load has made the parent directory and returned the empty list
C23_Witness ==
    /\ saved.made /\ disk.dir /\ disk.file = "missing"
    /\ coll = [NoColl EXCEPT !.kind = "list", !.suffix = ".json"]

WriterUnlocks == 3

\* the first step of f: l.Append of an element half written
WriteFirst(t) ==
    /\ thr[t].pc = "locked"
    /\ data' = Append(data, <<t, NoThread>>)
    /\ thr' = [thr EXCEPT ![t].pc = "half"]
    /\ UNCHANGED <<mutW, mutR, saveTimer, maxSaveTimer, saveOnce, file,
                   timers, onces, acted, budget, hist>>
    /\ UNCHANGED <<iterVars, listVars, mapVars, userVars, errVars, storeVars,
                   lockVars>>

\* the second step of f: the other half of the last element of the list
WriteSecond(t) ==
    /\ thr[t].pc = "half"
    /\ data' = [data EXCEPT ![Len(data)] = <<@[1], t>>]
    /\ thr' = [thr EXCEPT ![t].pc = "mutated"]
    /\ UNCHANGED <<mutW, mutR, saveTimer, maxSaveTimer, saveOnce, file,
                   timers, onces, acted, budget, hist>>
    /\ UNCHANGED <<iterVars, listVars, mapVars, userVars, errVars, storeVars,
                   lockVars>>

InitWriters ==
    /\ data = <<>>
    /\ SchedulerInit(WriterUnlocks)
    /\ NoIterator
    /\ NoCall

NextWriters ==
    \/ \E t \in Threads : Lock(t)
    \/ \E t \in Threads : WriteFirst(t)
    \/ \E t \in Threads : WriteSecond(t)
    \/ \E t \in Threads : Unlock(t)
    \/ \E t \in Threads : getSaveOnce(t)
    \/ \E t \in Threads : setSaveOnce(t)
    \/ \E t \in Threads : getSaveTimer(t)
    \/ \E t \in Threads : Reset(t)
    \/ \E t \in Threads : setSaveTimer(t)
    \/ \E t \in Threads : getMaxSaveTimer(t)
    \/ \E t \in Threads : setMaxSaveTimer(t)
    \/ \E i \in TimerIds : Fire(i)
    \/ \E i \in TimerIds : callbackDo(i)
    \/ \E i \in TimerIds : callbackClearSaveTimer(i)
    \/ \E i \in TimerIds : callbackClearMaxSaveTimer(i)
    \/ \E i \in TimerIds : callbackClearSaveOnce(i)
    \/ \E i \in TimerIds : SaveRLock(i)
    \/ \E i \in TimerIds : SaveWrite(i)
    \/ UserRLock
    \/ \E out \in Outcomes : UserRUnlock(out)
    \/ TickUser

SpecWriters == InitWriters /\ [][NextWriters]_vars

\* both halves of every element come from one writer
Whole(d) == \A j \in 1..Len(d) : d[j][1] = d[j][2]

\* C25: whenever a holder has the shared lock no writer is inside its
\* critical section and the data are whole, and every snapshot a Save wrote
\* is whole; an Unlock leaves the data whole with the element of its writer
\* last; and what is whole stays: the elements before the last never
\* change and the last one only while a writer is inside its section.
C25_WritersLinearized ==
    /\ [](Readers > 0 => Writers = {} /\ Whole(data))
    /\ [](Whole(file))
    /\ [][/\ \A t \in Threads :
               thr[t].pc = "mutated" /\ thr'[t].pc = "getOnce" =>
                   /\ Whole(data) /\ data # <<>>
                   /\ data[Len(data)] = <<t, t>>
          /\ Len(data') >= Len(data)
          /\ \A j \in 1..(Len(data) - 1) : data'[j] = data[j]
          /\ (data # <<>> /\ data'[Len(data)] # data[Len(data)]) =>
                \E t \in Threads : thr[t].pc = "half"]_vars

\* "U" holds the shared lock and reads the whole elements of both
\* writers, each after its critical section
C25_Witness ==
    /\ usr.pc = "reading"
    /\ data = <<<<"A", "A">>, <<"B", "B">>>>
    /\ budget = 0

(***************************************************************************)
(* An iterator started by a caller that holds the lock of the collection:  *)
(* the goroutine "A" inside its critical section, after its mutation       *)
(* (list.go:172-179), or the goroutine "U" inside a Read                   *)
(* (part_002:26-32).  The caller receives and cancels, then releases the   *)
(* lock; the producer may outlive the section.                             *)
(***************************************************************************)

HeldLen == 2

HeldKeys == {"a", "b"}

\* the caller's lock: "A" holds the exclusive lock or "U" the shared one
Holders == {"exclusive", "shared"}

\* the caller is between two calls on the iterator
BetweenCalls == cons.pc = "idle"

\* Unlock by the caller of the iterator
HeldUnlock == BetweenCalls /\ Unlock("A")

\* RUnlock by the caller of the iterator
HeldRUnlock == BetweenCalls /\ \E out \in Outcomes : UserRUnlock(out)

InitHeld ==
    /\ \E h \in Holders :
        /\ mutW = IF h = "exclusive" THEN "A" ELSE NoThread
        /\ mutR = IF h = "shared" THEN 1 ELSE 0
        /\ thr = [t \in Threads |->
                    [pc |-> IF h = "exclusive" /\ t = "A" THEN "mutated"
                            ELSE "idle",
                     once |-> Nil, t |-> Nil]]
        /\ usr = [pc |-> IF h = "shared" THEN "reading" ELSE "idle",
                  err |-> "none"]
    /\ timerMut = FreeMut
    /\ saveTimer = Nil /\ maxSaveTimer = Nil /\ saveOnce = Nil
    /\ file = <<>>
    /\ timers = [i \in TimerIds |-> FreeTimer]
    /\ onces = [o \in OnceIds |-> "free"]
    /\ acted = {}
    /\ budget = 0
    /\ hist = [burstSaves |-> NotArmed, dirtyAge |-> NotArmed,
               unlockAge |-> NotArmed, fromIdle |-> FALSE,
               savesSince |-> 0, firstSaveAge |-> NotArmed,
               churn |-> TRUE, age |-> NotArmed, saves |-> 0,
               firstSaveAt |-> NotArmed, inBurst |-> {}, inSave |-> {},
               owed |-> 0]
    /\ fout = [t \in Threads \cup {"U"} |-> "none"] /\ logged = 0
    /\ errChan = "nil" /\ recv = "away"
    /\ sink = [received |-> 0, printed |-> 0, age |-> NotArmed]
    /\ NoStore /\ NoCalls
    /\ kind \in {"Range", "RangeV", "RangeKV"}
    /\ \/ /\ kind = "Range"
          /\ data \in SeqsUpTo(Values, HeldLen)
          /\ mdata = <<>>
          /\ order = [i \in 1..Len(data) |-> i]
       \/ /\ kind # "Range"
          /\ data = <<>>
          /\ \E K \in SUBSET HeldKeys :
                /\ mdata \in [K -> Values]
                /\ order \in Perms(K)
    /\ prod = [pc |-> "for", i |-> 1, dch |-> "chan"]
    /\ ch = "open" /\ done = "open"
    /\ doneVar = {} /\ chVar = {}
    /\ cons = [pc |-> "return", ch |-> "chan", received |-> <<>>,
               sawClosed |-> FALSE, cancels |-> 0, cancelAt |-> NotArmed,
               late |-> FALSE]
    /\ panicked = {}

NextHeld ==
    \/ ProducerStep
    \/ ConsumerStep
    \/ HeldUnlock
    \/ HeldRUnlock
    \/ getSaveOnce("A")
    \/ setSaveOnce("A")
    \/ getSaveTimer("A")
    \/ setSaveTimer("A")
    \/ getMaxSaveTimer("A")
    \/ setMaxSaveTimer("A")
    \/ Tick
    \/ \E i \in TimerIds : Fire(i)
    \/ \E i \in TimerIds : callbackDo(i)
    \/ \E i \in TimerIds : callbackClearSaveTimer(i)
    \/ \E i \in TimerIds : callbackClearMaxSaveTimer(i)
    \/ \E i \in TimerIds : callbackClearSaveOnce(i)
    \/ \E i \in TimerIds : SaveRLock(i)
    \/ \E i \in TimerIds : SaveWrite(i)

SpecHeld == InitHeld /\ [][NextHeld]_vars

\* the caller of the iterator holds the exclusive or the shared lock
Holding == mutW = "A" \/ usr.pc = "reading"

\* no Unlock ran yet
NoUnlockYet == hist.unlockAge = NotArmed

\* C26: a step of Range, RangeKV or RangeV, of the producer goroutine or of
\* cancel leaves the lock of the collection, its three SaveState fields and
\* the timers as they are; while the caller holds the exclusive or the
\* shared lock and nothing panicked, the iteration can take a step until the
\* producer has returned; and before the first Unlock no save is scheduled.
C26_IteratorTakesNoLock ==
    /\ [][ProducerStep \/ ConsumerStep =>
             UNCHANGED <<mutW, mutR, saveTimer, maxSaveTimer, saveOnce,
                         timers, onces, thr, usr>>]_vars
    /\ [](Holding /\ panicked = {} /\ prod.pc # "done" =>
             ENABLED (ProducerStep \/ ConsumerStep))
    /\ [](NoUnlockYet =>
             /\ FieldsNil
             /\ \A i \in TimerIds : ~Armed(i) /\ timers[i].cb = "none")

\* the holder of the exclusive lock has received both elements of a list and
\* the closing of the channel, and still holds the lock
C26_Witness ==
    /\ mutW = "A" /\ thr["A"].pc = "mutated"
    /\ kind = "Range" /\ Len(data) = 2
    /\ Len(cons.received) = 2 /\ cons.sawClosed
    /\ prod.pc = "done"

(***************************************************************************)
(* The life of SaveState (save.go:41-83): notifyChanged on a bursting      *)
(* collection, notifyChanged during the Save of a callback, and the three  *)
(* fields between the calls.                                               *)
(***************************************************************************)

\* C28: a notifyChanged that began while the collection was bursting makes
\* no sync.Once and no max-delay timer: it stores neither saveOnce nor
\* maxSaveTimer.
C28_BurstingOnlyResets ==
    [][\A t \in hist.inBurst :
          ~setSaveOnce(t) /\ ~setMaxSaveTimer(t)]_vars

\* C29: a notifyChanged that began while the Save of a callback was in
\* flight returns with a burst that will save its mutation: saveTimer and
\* maxSaveTimer are armed timers, and the sync.Once their callbacks run has
\* not run yet.
C29_UnlockDuringSave ==
    [][\A t \in hist.inSave :
          thr[t].pc # "idle" /\ thr'[t].pc = "idle" =>
              /\ saveTimer' # Nil /\ maxSaveTimer' # Nil
              /\ timers'[saveTimer'].due # NotArmed
              /\ onces'[timers'[saveTimer'].once] = "new"
              /\ timers'[maxSaveTimer'].due # NotArmed
              /\ onces'[timers'[maxSaveTimer'].once] = "new"]_vars

\* C30: when no goroutine is inside notifyChanged and no callback runs, the
\* three fields are all nil or all set.
C30_AllOrNone == NoNotify /\ NoCallback => FieldsNil \/ Bursting

(***************************************************************************)
(* The accessors of the SaveState fields (list.go:235-269, map.go:253-287) *)
(* with their lock: each takes timerMut, reads or writes one field and     *)
(* releases timerMut by defer.  The goroutine or callback p is inside an   *)
(* accessor from timerMutLock until timerMutUnlock; the access between     *)
(* them is the action of the scheduler for the place p is at.              *)
(***************************************************************************)

LockUnlocks == 2

\* the places of notifyChanged and of the callback that call an accessor
AccessorPcs == {"getOnce", "newOnce", "getTimer", "newTimer", "getMax",
                "newMax"}

AccessorCbs == {"clr1", "clr2", "clr3"}

lockFixed == <<collVars, saveVars, iterVars, listVars, mapVars, userVars,
               errVars, storeVars>>

\* l.timerMut.Lock() in the accessor the goroutine t calls
timerMutLock(t) ==
    /\ thr[t].pc \in AccessorPcs
    /\ timerMut = FreeMut
    /\ timerMut' = [thr |-> t, cb |-> Nil, at |-> thr[t].pc]
    /\ UNCHANGED lockFixed

\* l.timerMut.Lock() in the accessor the callback of timer i calls
timerMutLockCb(i) ==
    /\ timers[i].cb \in AccessorCbs
    /\ timerMut = FreeMut
    /\ timerMut' = [thr |-> NoThread, cb |-> i, at |-> timers[i].cb]
    /\ UNCHANGED lockFixed

\* the deferred l.timerMut.Unlock(), after the access
timerMutUnlock(t) ==
    /\ timerMut.thr = t
    /\ thr[t].pc # timerMut.at
    /\ timerMut' = FreeMut
    /\ UNCHANGED lockFixed

timerMutUnlockCb(i) ==
    /\ timerMut.cb = i
    /\ timers[i].cb # timerMut.at
    /\ timerMut' = FreeMut
    /\ UNCHANGED lockFixed

\* the goroutine t is inside an accessor and has not made its access yet
Inside(t) == timerMut.thr = t /\ thr[t].pc = timerMut.at

InsideCb(i) == timerMut.cb = i /\ timers[i].cb = timerMut.at

\* the goroutine t is not inside an accessor
Outside(t) == timerMut.thr # t

OutsideCb(i) == timerMut.cb # i

InitLocks ==
    /\ data = <<>>
    /\ SchedulerInit(LockUnlocks)
    /\ NoIterator
    /\ NoCall

NextLocks ==
    \/ \E t \in Threads : timerMutLock(t)
    \/ \E t \in Threads : timerMutUnlock(t)
    \/ \E i \in TimerIds : timerMutLockCb(i)
    \/ \E i \in TimerIds : timerMutUnlockCb(i)
    \/ \E t \in Threads : Outside(t) /\ Lock(t)
    \/ \E t \in Threads : Outside(t) /\ ListAppend(t)
    \/ \E t \in Threads : Outside(t) /\ Unlock(t)
    \/ \E t \in Threads : Inside(t) /\ getSaveOnce(t)
    \/ \E t \in Threads : Inside(t) /\ setSaveOnce(t)
    \/ \E t \in Threads : Inside(t) /\ getSaveTimer(t)
    \/ \E t \in Threads : Outside(t) /\ Reset(t)
    \/ \E t \in Threads : Inside(t) /\ setSaveTimer(t)
    \/ \E t \in Threads : Inside(t) /\ getMaxSaveTimer(t)
    \/ \E t \in Threads : Inside(t) /\ setMaxSaveTimer(t)
    \/ \E i \in TimerIds : OutsideCb(i) /\ Fire(i)
    \/ \E i \in TimerIds : OutsideCb(i) /\ callbackDo(i)
    \/ \E i \in TimerIds : InsideCb(i) /\ callbackClearSaveTimer(i)
    \/ \E i \in TimerIds : InsideCb(i) /\ callbackClearMaxSaveTimer(i)
    \/ \E i \in TimerIds : InsideCb(i) /\ callbackClearSaveOnce(i)
    \/ \E i \in TimerIds : OutsideCb(i) /\ SaveRLock(i)
    \/ \E i \in TimerIds : OutsideCb(i) /\ SaveWrite(i)
    \/ timerMut = FreeMut /\ Tick

\* the scheduler with the lock of the accessors
SpecLocks == InitLocks /\ [][NextLocks]_vars

\* a goroutine or a callback waits for timerMut or for the data lock
WaitsForLock ==
    \/ \E t \in Threads : thr[t].pc \in AccessorPcs /\ Outside(t)
    \/ \E i \in TimerIds : timers[i].cb \in AccessorCbs /\ OutsideCb(i)
    \/ \E i \in TimerIds : timers[i].cb = "rlock"

\* C31: a step that reads or writes saveTimer, maxSaveTimer or saveOnce is
\* taken by the holder of timerMut; who takes timerMut does not hold the
\* data lock, who takes the data lock does not hold timerMut; and while a
\* goroutine or a callback waits for one of the two locks, some step can be
\* taken.
C31_TwoLocksNoCycle ==
    /\ [][/\ <<saveTimer, maxSaveTimer, saveOnce>>' #
                 <<saveTimer, maxSaveTimer, saveOnce>> => timerMut # FreeMut
          /\ \A t \in Threads :
                /\ thr[t].pc \in AccessorPcs /\ thr'[t].pc # thr[t].pc =>
                      timerMut.thr = t
                /\ timerMut'.thr = t /\ timerMut.thr # t => mutW # t
                /\ mutW' = t /\ mutW # t => timerMut.thr # t
          /\ \A i \in TimerIds :
                /\ timers[i].cb \in AccessorCbs /\
                   timers'[i].cb # timers[i].cb => timerMut.cb = i
                /\ timerMut'.cb = i /\ timerMut.cb # i =>
                      timers[i].cb # "write"
                /\ timers[i].cb = "rlock" /\ timers'[i].cb = "write" =>
                      timerMut.cb # i]_vars
    /\ [](\A t \in Threads : timerMut.thr = t => mutW # t)
    /\ [](\A i \in TimerIds : timerMut.cb = i => timers[i].cb # "write")
    /\ [](WaitsForLock => ENABLED NextLocks)

\* a callback holds timerMut inside setSaveOnce(nil) while a goroutine
\* inside notifyChanged waits for timerMut to read saveTimer
C31_Witness ==
    /\ \E i \in TimerIds : InsideCb(i) /\ timers[i].cb = "clr3"
    /\ \E t \in Threads : thr[t].pc = "getTimer" /\ Outside(t)
    /\ mutW = NoThread

(***************************************************************************)
(* The timers and the sync.Once they are bound to.                         *)
(***************************************************************************)

\* C32: while no callback is running, a timer that is stored in saveTimer
\* or maxSaveTimer and is armed has a callback bound to a sync.Once that
\* has not run: no timer of the collection is bound to the used sync.Once
\* of an earlier burst.
C32_GuardBinding ==
    NoCallback =>
        \A i \in TimerIds :
            (i = saveTimer \/ i = maxSaveTimer) /\ Armed(i) =>
                OnceState(timers[i].once) = "new"

\* C33: when the collection is idle, every timer that is still armed is a
\* timer of a finished burst, and the sync.Once its callback is bound to
\* has run: the callback will find nothing to do, it starts no Save and
\* clears no field of a burst that begins later.
C33_StaleTimersDoNothing ==
    Idle => \A i \in TimerIds :
                Armed(i) => OnceState(timers[i].once) = "done"

(***************************************************************************)
(* The cancel of Map.RangeKV (map.go:93-102) and the variable done it      *)
(* shares with the producer (map.go:106-115, 117-121).                     *)
(***************************************************************************)

\* the producer waits in its select on a nil done channel: the case <-done
\* can never become ready (map.go:118 read done after map.go:100)
WaitsOnNilDone == prod.pc = "select" /\ prod.dch = "nil"

\* C34: in Map.RangeKV, however cancel (called once or repeatedly) and the
\* producer interleave, neither goroutine panics by closing a nil or an
\* already closed channel, and the producer observes the cancellation: it
\* never waits in a select whose done case cannot fire
C34_CancelRangeKV ==
    kind = "RangeKV" => panicked = {} /\ ~WaitsOnNilDone

(***************************************************************************)
(* An iterator whose consumer stops receiving and never calls cancel       *)
(* (list.go:157-167, map.go:142-152, speicher.go:31-39).                   *)
(***************************************************************************)

\* cancel has not been called
NeverCancelled == cons.cancelAt = NotArmed

\* the producer waits in the hand-off and the consumer is not receiving
Abandoned == NeverCancelled /\ prod.pc = "select" /\ cons.pc = "idle"

\* C35: without a call of cancel the producer leaves its loop, terminates
\* and closes the element channel only after the consumer has received
\* every element; while the consumer does not receive, a producer waiting
\* in the hand-off cannot take any step
C35_AbandonedProducerBlocks ==
    /\ [](NeverCancelled /\ (prod.pc \notin {"for", "select"}
                                \/ ch = "closed") =>
             Len(cons.received) = Len(order))
    /\ [](Abandoned => ~ENABLED ProducerStep)
    /\ [][Abandoned /\ prod' # prod => cons' # cons]_vars

\* the consumer took one of several elements and stopped; the producer
\* waits with the next one
C35_Witness ==
    /\ Abandoned
    /\ Len(cons.received) = 1
    /\ Len(order) > 1
    /\ ch = "open"

(***************************************************************************)
(* Save called by the program from a goroutine of Threads, outside or      *)
(* inside its critical section (list.go:189-202, map.go:210-223).          *)
(***************************************************************************)

NestedUnlocks == 3

nestedFixed == <<iterVars, listVars, mapVars, userVars, errVars, storeVars,
                lockVars>>

\* l.Save() is called: by a goroutine that holds no lock, or by the holder
\* of the exclusive lock after its mutation (in the f of Write / WriteE or
\* between Lock and Unlock); the next thing it does is l.RLock()
SaveCall(t) ==
    /\ \/ /\ thr[t].pc = "idle"
          /\ t \notin acted
          /\ budget > 0
          /\ budget' = budget - 1
          /\ acted' = acted \cup {t}
       \/ /\ thr[t].pc = "mutated"
          /\ UNCHANGED <<budget, acted>>
    /\ thr' = [thr EXCEPT ![t].pc = "rlock"]
    /\ UNCHANGED <<collVars, timers, onces, hist>>
    /\ UNCHANGED nestedFixed

\* an RLock that lets the holder of the exclusive lock in
SaveCallRLockReentrant(t) ==
    /\ thr[t].pc = "rlock"
    /\ mutW \in {NoThread, t}
    /\ mutR' = mutR + 1
    /\ thr' = [thr EXCEPT ![t].pc = "write"]
    /\ UNCHANGED <<data, mutW, saveTimer, maxSaveTimer, saveOnce, file,
                   timers, onces, acted, budget, hist>>
    /\ UNCHANGED nestedFixed

\* list.go:190  l.RLock(): blocks while a writer holds the lock, whoever
\* the writer is
SaveCallRLock(t) ==
    /\ thr[t].pc = "rlock"
    /\ mutW = NoThread
    /\ mutR' = mutR + 1
    /\ thr' = [thr EXCEPT ![t].pc = "write"]
    /\ UNCHANGED <<data, mutW, saveTimer, maxSaveTimer, saveOnce, file,
                   timers, onces, acted, budget, hist>>
    /\ UNCHANGED nestedFixed

\* list.go:193-201  os.Create, Encode(l.data), the deferred RUnlock, and
\* Save returns to where it was called
SaveCallWrite(t) ==
    /\ thr[t].pc = "write"
    /\ file' = data
    /\ mutR' = mutR - 1
    /\ thr' = [thr EXCEPT ![t].pc = IF mutW = t THEN "mutated" ELSE "idle"]
    /\ UNCHANGED <<data, mutW, saveTimer, maxSaveTimer, saveOnce,
                   timers, onces, acted, budget, hist>>
    /\ UNCHANGED nestedFixed

InitNested ==
    /\ data = <<>>
    /\ SchedulerInit(NestedUnlocks) /\ NoIterator /\ NoCall

NextNested ==
    \/ Step(Threads)
    \/ \E t \in Threads : SaveCall(t)
    \/ \E t \in Threads : SaveCallRLock(t)
    \/ \E t \in Threads : SaveCallWrite(t)
    \/ Tick

\* the scheduler beside goroutines that also call Save themselves
SpecNested == InitNested /\ [][NextNested]_vars

\* t is in the l.RLock() of a Save it called while it holds l.mut
SelfBlocked(t) == thr[t].pc = "rlock" /\ mutW = t

\* C36: a goroutine that calls Save while it holds the exclusive lock of
\* the collection waits in Save's RLock and stays there in every step, the
\* lock staying held by it; a Save that got past its RLock, and so one that
\* returns, was called by a goroutine that does not hold the exclusive lock
C36_SaveUnderLockBlocks ==
    /\ [][\A t \in Threads :
            SelfBlocked(t) => thr'[t] = thr[t] /\ mutW' = t]_vars
    /\ [](\A t \in Threads : SelfBlocked(t) => ~ENABLED SaveCallRLock(t))
    /\ [](\A t \in Threads : thr[t].pc = "write" => mutW # t)
    /\ [][\A t \in Threads :
            thr[t].pc = "write" /\ thr'[t].pc # "write" =>
                thr'[t].pc = "idle" /\ file' = data]_vars

\* a goroutine waits in the Save it called inside its critical section,
\* the callback of the autosave waits behind it, and a Save called by the
\* other goroutine outside any critical section has returned before
C36_Witness ==
    /\ \E t \in Threads : SelfBlocked(t)
    /\ \E i \in TimerIds : timers[i].cb = "rlock"
    /\ file # <<>>

(***************************************************************************)
(* Unlock beside the Saves of the callbacks (list.go:176-179,              *)
(* map.go:198-201, save.go:37-84).                                         *)
(***************************************************************************)

\* the places of a goroutine from Unlock to the return of notifyChanged
UnlockPcs == {"mutated", "getOnce", "newOnce", "getTimer", "reset",
              "newTimer", "getMax", "newMax"}

\* the next step of t in Unlock and its notifyChanged
UnlockStep(t) ==
    \/ Unlock(t)
    \/ getSaveOnce(t) \/ setSaveOnce(t)
    \/ getSaveTimer(t) \/ Reset(t) \/ setSaveTimer(t)
    \/ getMaxSaveTimer(t) \/ setMaxSaveTimer(t)

\* C37: Unlock never waits for persistence.  A step of a goroutine in
\* Unlock or notifyChanged takes no data lock and writes no file (no Save
\* on the mutator's goroutine); its next step is enabled in every state,
\* also while a Save of a callback is in flight or waits for the lock; and
\* the Saves the callbacks have started are never more than the bursts
\* begun, however many Unlocks a burst has.
C37_UnlockNeverWaits ==
    /\ [][\A t \in Threads :
            thr[t].pc \in UnlockPcs \ {"mutated"}
              /\ thr'[t].pc # thr[t].pc =>
                /\ file' = file /\ data' = data
                /\ mutR' = mutR /\ mutW' = mutW]_vars
    /\ [](\A t \in Threads : thr[t].pc \in UnlockPcs => ENABLED UnlockStep(t))
    /\ [](hist.owed >= 0)

(***************************************************************************)
(* The callback that waits in errChan <- err (save.go:31) with no receiver *)
(* at the channel of Err().                                                *)
(***************************************************************************)

\* the callbacks that wait in their send, no receiver being there
Stalled == {i \in TimerIds : timers[i].cb = "send" /\ recv = "away"}

\* C38: a callback that waits in its send for a receiver holds neither the
\* data lock nor timerMut, and the guard it runs under is no longer the
\* stored one; the goroutines go on with Unlock and notifyChanged, and the
\* bursts that follow are saved: once nothing is left to happen but for
\* the waiting callbacks, a Save has started after every Unlock.
C38_StalledCallbackHarmless ==
    /\ [](\A i \in Stalled :
             /\ mutR = Cardinality({j \in TimerIds : timers[j].cb = "write"})
             /\ timerMut.cb # i
             /\ saveOnce # timers[i].once)
    /\ [](Stalled # {} =>
             \A t \in Threads :
                 thr[t].pc \in UnlockPcs => ENABLED UnlockStep(t))
    /\ [](Stalled # {} /\ Settled => hist.dirtyAge = NotArmed)

(***************************************************************************)
(* The helpers on every exit path of f: Write / WriteE (Lock, defer        *)
(* Unlock) and Read / ReadE (RLock, defer RUnlock), part_002:10-32 and     *)
(* list.go:271-293.                                                        *)
(***************************************************************************)

HelperUnlocks == 2

\* the f of WriteE returns an error or panics after it has changed the
\* data; the deferred s.Unlock() is what runs next
fFailsAfter(t, out) ==
    /\ thr[t].pc = "mutated"
    /\ fout[t] # out
    /\ fout' = [fout EXCEPT ![t] = out]
    /\ UNCHANGED <<collVars, saveVars, usr, logged>>
    /\ UNCHANGED userFixed

InitHelpers ==
    /\ data = <<>>
    /\ SchedulerInit(HelperUnlocks)
    /\ NoIterator
    /\ NoCall

NextHelpers ==
    \/ Step(Threads)
    \/ \E t \in Threads, out \in Failures : fFails(t, out)
    \/ \E t \in Threads, out \in Failures : fFailsAfter(t, out)
    \/ UserRLock
    \/ \E out \in Outcomes : UserRUnlock(out)
    \/ TickUser

\* the helpers beside the save scheduler, f ending in every way
SpecHelpers == InitHelpers /\ [][NextHelpers]_vars

\* C39: Write and WriteE leave through Unlock on every exit path: however
\* f ended, with or without a change of the data, the step out of the
\* critical section releases the exclusive lock and enters notifyChanged,
\* each step of which is enabled; notifyChanged then arms or resets the
\* debounce timer debounceDelay ahead and returns with a max-delay timer
\* stored, as after an f that succeeded.  A step of Read or ReadE (RLock,
\* f, the deferred RUnlock) changes no SaveState field, no timer and no
\* once and moves no goroutine into notifyChanged.
C39_WriteSchedulesReadDoesNot ==
    /\ [][/\ \A t \in Threads :
               /\ thr[t].pc = "mutated" /\ thr'[t].pc # "mutated" =>
                      mutW' = NoThread /\ thr'[t].pc = "getOnce"
               /\ thr[t].pc # "getMax" /\ thr'[t].pc = "getMax" =>
                      \E i \in TimerIds : timers'[i].due = debounceDelay
               /\ thr[t].pc \in {"getMax", "newMax"} /\ thr'[t].pc = "idle" =>
                      maxSaveTimer' # Nil
          /\ usr' # usr =>
               /\ saveTimer' = saveTimer /\ maxSaveTimer' = maxSaveTimer
               /\ saveOnce' = saveOnce
               /\ timers' = timers /\ onces' = onces /\ thr' = thr]_vars
    /\ [](\A t \in Threads :
             thr[t].pc \in UnlockPcs => ENABLED UnlockStep(t))

\* the only critical section so far changed the data and its f then
\* returned an error: the burst is there as after a success; a ReadE whose
\* f failed has come and gone and has left it alone
C39_Witness ==
    /\ \E t \in Threads :
          /\ fout[t] = "err" /\ thr[t].pc = "idle"
          /\ \A u \in Threads \ {t} : fout[u] = "none" /\ thr[u].pc = "idle"
    /\ data = <<1>> /\ budget = 0
    /\ fout["U"] = "err" /\ usr.pc = "idle"
    /\ Bursting
    /\ Armed(saveTimer) /\ Armed(maxSaveTimer)

====
